---- MODULE Spec2Model ----
(***************************************************************************)
(* The Terra transaction manager (terratxm.Txm): the message store it      *)
(* reads and updates, its Start/Close lifecycle, the run loop and the      *)
(* dispatch cycle sendMsgBatch.                                            *)
(* The keeper registry (KeeperRegistryDev): pausing and resuming upkeeps,  *)
(* the active set, transmit, simulatePerformUpkeep and funding.            *)
(* The task pipeline (pipeline.Parse and Pipeline.MinTimeout).             *)
(***************************************************************************)
EXTENDS Integers, Sequences, FiniteSets, TLC

(* ------------------------------ bounds --------------------------------- *)

\* Rows the store may hold.
MaxMsgs == 2
\* Notifications that may wait on the subscription's channel.
MaxEvents == 1

(* ----------------------------- constants ------------------------------- *)

Unstarted == "unstarted"
Completed == "completed"

\* Sender addresses that occur in payloads; "" is the Sender of a message
\* whose sender field was never decoded.
Senders == {"X", "Y"}

\* Callers of Close().
Closers == {"c1", "c2"}

\* Payloads handed to Enqueue, as field lists: tag "S" carries the sender,
\* tag "M" the execute message; a tag without its value is a truncated payload.
Payloads ==
    { <<"S", "X", "M", "a">>,
      <<"S", "Y", "M", "a">>,
      <<"S", "X", "M">> }

EmptyMap == [k \in {} |-> <<>>]

VARIABLES
    msgs,        \* the store's rows, in id order: [ID, Msg, State]
    starter,     \* txm.starter: the StartStopOnce state
    startRet,    \* what the last Start() call returned
    nSubs,       \* subscriptions made by Start()
    nLoops,      \* run goroutines launched by Start()
    sub,         \* txm.sub: "nil", "open" or "closed"
    loop,        \* where the run goroutine is
    tick,        \* a tick waits on txm.ticker.C
    events,      \* notifications waiting on sub.Events()
    closer,      \* where each caller of Close() is
    unstarted,   \* sendMsgBatch: the rows read at the start of the cycle
    gp,          \* sendMsgBatch: the gas price quoted for the cycle
    msgsByFrom,  \* sendMsgBatch: sender -> decoded messages
    idsByFrom,   \* sendMsgBatch: sender -> ids
    todo,        \* sendMsgBatch: the senders the range loop has not visited
    calls,       \* sendMsgBatch: sender -> the calls made for its group
    result,      \* sendMsgBatch: sender -> how its iteration ended
    retry,       \* the rows of the groups that the last finished cycle left
                 \* after a lookup with a count other than 1, until a later
                 \* cycle reads the store
    late,        \* the ids of the rows Enqueue inserted while a cycle was
                 \* past its read of the store, until a later cycle reads
                 \* the store
    s_upkeep,        \* registry: id -> [balance, amountSpent,
                     \* lastPerformBlockNumber, paused]
    s_upkeepIDs,     \* registry: the active upkeep ids, in the set's order
    s_transmitters,  \* registry: active transmitter -> balance
    blockNumber,     \* registry: block.number
    regCall,         \* registry: the last call and how it ended
    dotGraph,        \* pipeline: the graph of the text given to Parse
    parsed,          \* pipeline: what Parse ended with
    tasks,           \* pipeline: TaskTimeout() of the Tasks of a pipeline
    minTimeoutRet    \* pipeline: what MinTimeout returned

storeVars == <<msgs>>
lifeVars  == <<starter, startRet, nSubs, nLoops, sub>>
envVars   == <<tick, events>>
cycleVars == <<unstarted, gp, msgsByFrom, idsByFrom, todo, calls, result>>
txmVars   == <<storeVars, lifeVars, loop, envVars, closer, cycleVars, retry,
               late>>
regVars   == <<s_upkeep, s_upkeepIDs, s_transmitters, blockNumber, regCall>>
pipeVars  == <<dotGraph, parsed, tasks, minTimeoutRet>>
vars == <<msgs, starter, startRet, nSubs, nLoops, sub, loop, tick, events,
          closer, unstarted, gp, msgsByFrom, idsByFrom, todo, calls, result,
          retry, late, regVars, pipeVars>>

(* --------------------------- the message store ------------------------- *)

\* orm.InsertMsg: a new row, Unstarted, with the next id.
InsertMsg(rows, payload) ==
    Append(rows, [ID |-> Len(rows) + 1, Msg |-> payload, State |-> Unstarted])

\* orm.SelectMsgsWithState: the rows in the given state, in id order.
SelectMsgsWithState(rows, state) ==
    SelectSeq(rows, LAMBDA m : m.State = state)

\* orm.UpdateMsgsWithState: the rows whose id is in ids get the state.
UpdateMsgsWithState(rows, ids, state) ==
    [i \in 1..Len(rows) |->
        IF rows[i].ID \in ids THEN [rows[i] EXCEPT !.State = state] ELSE rows[i]]

Range(s) == {s[i] : i \in 1..Len(s)}

(* ------------------------------ decoding ------------------------------- *)

\* MsgExecuteContract.Unmarshal: the fields are read in order into ms; a tag
\* without its value ends the decoding with an error and ms keeps what was
\* read before it.
RECURSIVE UnmarshalFrom(_, _, _)
UnmarshalFrom(bytes, i, ms) ==
    IF i > Len(bytes) THEN [ms |-> ms, err |-> FALSE]
    ELSE IF i = Len(bytes) THEN [ms |-> ms, err |-> TRUE]
    ELSE IF bytes[i] = "S"
         THEN UnmarshalFrom(bytes, i + 2, [ms EXCEPT !.Sender = bytes[i + 1]])
    ELSE IF bytes[i] = "M"
         THEN UnmarshalFrom(bytes, i + 2, [ms EXCEPT !.ExecuteMsg = bytes[i + 1]])
    ELSE [ms |-> ms, err |-> TRUE]

Unmarshal(bytes) == UnmarshalFrom(bytes, 1, [Sender |-> "", ExecuteMsg |-> ""])


\* sendMsgBatch's first loop: every row read goes, in the order read, to the
\* lists of the Sender its payload decodes to; a decoding error is ignored.
RECURSIVE GroupFrom(_, _, _)
GroupFrom(rows, i, acc) ==
    IF i > Len(rows) THEN acc
    ELSE LET m  == rows[i]
             ms == Unmarshal(m.Msg).ms
             s  == ms.Sender
             Put(map, v) ==
                 [k \in DOMAIN map \cup {s} |->
                     IF k = s
                     THEN Append(IF s \in DOMAIN map THEN map[s] ELSE <<>>, v)
                     ELSE map[k]]
         IN  GroupFrom(rows, i + 1,
                       [msgs |-> Put(acc.msgs, ms), ids |-> Put(acc.ids, m.ID)])

\* The grouping with the decoded message declared once, outside the loop, and
\* decoded from the first row only: every row lands under that sender.
RECURSIVE GroupFromFirstKey(_, _, _)
GroupFromFirstKey(rows, i, acc) ==
    IF i > Len(rows) THEN acc
    ELSE LET m  == rows[i]
             ms == Unmarshal(rows[1].Msg).ms
             s  == ms.Sender
             Put(map, v) ==
                 [k \in DOMAIN map \cup {s} |->
                     IF k = s
                     THEN Append(IF s \in DOMAIN map THEN map[s] ELSE <<>>, v)
                     ELSE map[k]]
         IN  GroupFromFirstKey(rows, i + 1,
                       [msgs |-> Put(acc.msgs, ms), ids |-> Put(acc.ids, m.ID)])

\* The grouping putting each row read at the front of its sender's lists.
RECURSIVE GroupFromPrepend(_, _, _)
GroupFromPrepend(rows, i, acc) ==
    IF i > Len(rows) THEN acc
    ELSE LET m  == rows[i]
             ms == Unmarshal(m.Msg).ms
             s  == ms.Sender
             Put(map, v) ==
                 [k \in DOMAIN map \cup {s} |->
                     IF k = s
                     THEN <<v>> \o (IF s \in DOMAIN map THEN map[s] ELSE <<>>)
                     ELSE map[k]]
         IN  GroupFromPrepend(rows, i + 1,
                       [msgs |-> Put(acc.msgs, ms), ids |-> Put(acc.ids, m.ID)])

GroupPrepend(rows) == GroupFromPrepend(rows, 1, [msgs |-> EmptyMap, ids |-> EmptyMap])

GroupOneBatch(rows) == GroupFromFirstKey(rows, 1, [msgs |-> EmptyMap, ids |-> EmptyMap])

Group(rows) == GroupFrom(rows, 1, [msgs |-> EmptyMap, ids |-> EmptyMap])

(* ------------------------- the external answers ------------------------ *)

\* What tc.TxsEvents may answer: an error, a nil result, or num transactions.
TxsResults ==
    { [err |-> TRUE,  isNil |-> FALSE, num |-> 0],
      [err |-> FALSE, isNil |-> TRUE,  num |-> 0],
      [err |-> FALSE, isNil |-> FALSE, num |-> 0],
      [err |-> FALSE, isNil |-> FALSE, num |-> 1],
      [err |-> FALSE, isNil |-> FALSE, num |-> 2] }

\* The gas prices tc.GasPrice may quote, and the value of gp while
\* sendMsgBatch has not asked for one.
GasPrices == {"low", "high"}

NoQuote == "none"

\* The sequence numbers tc.Account may return for an account.
SeqNums == {0, 1}

\* What orm.UpdateMsgsWithState(ids, ..) may do: update every id and succeed,
\* or fail having updated only some of them.
UpdateOutcomes(ids) ==
    {[err |-> FALSE, done |-> ids]} \cup
    {[err |-> TRUE, done |-> d] : d \in (SUBSET ids) \ {ids}}

\* The answers one iteration of the range loop may get for a group with the
\* given ids; a call that is not reached gets no answer of its own (it is
\* given the successful one), and a failing Account returns no sequence
\* number of interest.
Answers(ids) ==
    LET oneTx == CHOOSE r \in TxsResults : ~r.err /\ ~r.isNil /\ r.num = 1
        allOk == [accountErr |-> FALSE, sn |-> 0, keyErr |-> FALSE,
                  broadcastErr |-> FALSE, txes |-> oneTx,
                  upd |-> [err |-> FALSE, done |-> ids]]
        reached == {[allOk EXCEPT !.keyErr = TRUE],
                    [allOk EXCEPT !.broadcastErr = TRUE]}
                   \cup {[allOk EXCEPT !.txes = r] : r \in TxsResults}
                   \cup {[allOk EXCEPT !.upd = u] : u \in UpdateOutcomes(ids)}
    IN  {[allOk EXCEPT !.accountErr = TRUE]}
        \cup {[a EXCEPT !.sn = n] : a \in reached, n \in SeqNums}

Call(op, arg, ret) == [op |-> op, arg |-> arg, ret |-> ret]

\* A call that returns or is given a sequence number.
CallSeq(op, arg, ret, sn) == [op |-> op, arg |-> arg, ret |-> ret, sn |-> sn]

\* A call that is given a sequence number and a gas price.
CallGas(op, arg, ret, sn, price) ==
    [op |-> op, arg |-> arg, ret |-> ret, sn |-> sn, gp |-> price]

TxsRet(txes) ==
    IF txes.err THEN "err"
    ELSE IF txes.isNil THEN "nil"
    ELSE IF txes.num = 0 THEN "n0"
    ELSE IF txes.num = 1 THEN "n1"
    ELSE "many"

(* ========================= the keeper registry ========================= *)
(* KeeperRegistryDev: the upkeeps, the set of active upkeep ids, the        *)
(* transmitters' balances. Modifiers and helpers of KeeperRegistryBase     *)
(* (whenNotPaused, validUpkeep, requireAdminAndNotCancelled,               *)
(* _generatePerformParams, _calculatePaymentAmount) and the signature      *)
(* check are inputs of the calls: each can let the call pass or revert,    *)
(* and the amounts they compute can be any amount.                         *)

\* The largest values of the uint32 and uint96 fields, scaled down.
UINT32_MAX == 3
UINT96_MAX == 2

UpkeepIds == {1, 2}
Transmitters == {"t1"}
Accounts == Transmitters \cup {"other"}
Amounts == 0..UINT96_MAX
CheckBlocks == 0..UINT32_MAX
NoErr == "none"

\* How the checks before the report is decoded end: whenNotPaused, the
\* config digest, the number of signatures, the signers.
PreChecks == {"ok", "Paused", "BadSignatures"}

\* EnumerableSet.UintSet, as the list of its values: add appends a value
\* that is not in the set.
add(set, value) ==
    IF value \in Range(set) THEN set ELSE Append(set, value)

\* EnumerableSet.UintSet: remove moves the last value to the place of the
\* removed one.
remove(set, value) ==
    IF value \notin Range(set) THEN set
    ELSE LET i == CHOOSE k \in 1..Len(set) : set[k] = value
             n == Len(set)
         IN  SubSeq([set EXCEPT ![i] = set[n]], 1, n - 1)

\* What a call leaves and returns: the error it reverted with (NoErr if it
\* did not revert), the upkeeps, the active ids, the transmitters' balances
\* and the value returned.
Outcome(err, upkeep, ids, transmitters, out) ==
    [err |-> err, upkeep |-> upkeep, ids |-> ids,
     transmitters |-> transmitters, out |-> out]

\* pauseUpkeep that does not take the id out of the active set.
pauseUpkeepKeepActive(upkeep, ids, transmitters, isAdmin, id) ==
    IF ~isAdmin
    THEN Outcome("OnlyCallableByAdmin", upkeep, ids, transmitters, <<>>)
    ELSE IF upkeep[id].paused
    THEN Outcome("OnlyUnpausedUpkeep", upkeep, ids, transmitters, <<>>)
    ELSE Outcome(NoErr, [upkeep EXCEPT ![id].paused = TRUE], ids,
                 transmitters, <<>>)

\* pauseUpkeep(id).
pauseUpkeep(upkeep, ids, transmitters, isAdmin, id) ==
    IF ~isAdmin
    THEN Outcome("OnlyCallableByAdmin", upkeep, ids, transmitters, <<>>)
    ELSE IF upkeep[id].paused
    THEN Outcome("OnlyUnpausedUpkeep", upkeep, ids, transmitters, <<>>)
    ELSE Outcome(NoErr, [upkeep EXCEPT ![id].paused = TRUE], remove(ids, id),
                 transmitters, <<>>)

\* unpauseUpkeep(id).
unpauseUpkeep(upkeep, ids, transmitters, isAdmin, id) ==
    IF ~isAdmin
    THEN Outcome("OnlyCallableByAdmin", upkeep, ids, transmitters, <<>>)
    ELSE IF ~upkeep[id].paused
    THEN Outcome("OnlyPausedUpkeep", upkeep, ids, transmitters, <<>>)
    ELSE Outcome(NoErr, [upkeep EXCEPT ![id].paused = FALSE], add(ids, id),
                 transmitters, <<>>)

\* getActiveUpkeepIDs(startIndex, maxCount): at() reverts on an index past
\* the end of the set.
getActiveUpkeepIDs(upkeep, ids, transmitters, startIndex, maxCount) ==
    LET maxIdx == Len(ids)
        count  == IF maxCount = 0 THEN maxIdx - startIndex ELSE maxCount
    IN  IF startIndex >= maxIdx
        THEN Outcome("IndexOutOfRange", upkeep, ids, transmitters, <<>>)
        ELSE IF startIndex + count > maxIdx
        THEN Outcome("Panic", upkeep, ids, transmitters, <<>>)
        ELSE Outcome(NoErr, upkeep, ids, transmitters,
                     [idx \in 1..count |-> ids[startIndex + idx]])

\* _performUpkeepWithParams: the error it reverts with, NoErr if it goes
\* through to the call of the target and returns.
performUpkeepWithParams(u, valid, maxLinkPayment, enoughGas) ==
    IF ~valid THEN "UpkeepNotActive"
    ELSE IF u.paused THEN "OnlyUnpausedUpkeep"
    ELSE IF u.balance < maxLinkPayment THEN "InsufficientFunds"
    ELSE IF ~enoughGas THEN "OutOfGas"
    ELSE NoErr

\* simulatePerformUpkeep(id, performData): nothing is written.
simulatePerformUpkeep(upkeep, ids, transmitters, pre, id, valid, maxLinkPayment, enoughGas) ==
    IF pre # "ok" THEN Outcome(pre, upkeep, ids, transmitters, <<>>)
    ELSE Outcome(performUpkeepWithParams(upkeep[id], valid, maxLinkPayment,
                                         enoughGas),
                 upkeep, ids, transmitters, <<>>)

\* transmit crediting the transmitter with the maximum payment of the perform
\* parameters instead of the payment calculated from the gas used.
transmitPayMax(upkeep, ids, transmitters, block, sender, pre, id, checkBlockNumber, valid, maxLinkPayment, enoughGas, payment) ==
    LET u      == upkeep[id]
        failed == performUpkeepWithParams(u, valid, maxLinkPayment, enoughGas)
        revert(e) == Outcome(e, upkeep, ids, transmitters, <<>>)
    IN  IF pre = "Paused" THEN revert("Paused")
        ELSE IF sender \notin Transmitters THEN revert("OnlyActiveKeepers")
        ELSE IF pre # "ok" THEN revert(pre)
        ELSE IF checkBlockNumber <= u.lastPerformBlockNumber
        THEN revert("StaleReport")
        ELSE IF failed # NoErr THEN revert(failed)
        ELSE IF u.balance < payment THEN revert("Panic")
        ELSE IF u.amountSpent + payment > UINT96_MAX THEN revert("Panic")
        ELSE IF transmitters[sender] + maxLinkPayment > UINT96_MAX
        THEN revert("Panic")
        ELSE Outcome(NoErr,
                 [upkeep EXCEPT ![id] =
                     [u EXCEPT !.balance = u.balance - payment,
                               !.amountSpent = u.amountSpent + payment,
                               !.lastPerformBlockNumber =
                                    block % (UINT32_MAX + 1)]],
                 ids,
                 [transmitters EXCEPT ![sender] = @ + maxLinkPayment],
                 <<>>)

\* transmit without the test of the report's check block.
transmitNoStaleCheck(upkeep, ids, transmitters, block, sender, pre, id, checkBlockNumber, valid, maxLinkPayment, enoughGas, payment) ==
    LET u      == upkeep[id]
        failed == performUpkeepWithParams(u, valid, maxLinkPayment, enoughGas)
        revert(e) == Outcome(e, upkeep, ids, transmitters, <<>>)
    IN  IF pre = "Paused" THEN revert("Paused")
        ELSE IF sender \notin Transmitters THEN revert("OnlyActiveKeepers")
        ELSE IF pre # "ok" THEN revert(pre)
        ELSE IF failed # NoErr THEN revert(failed)
        ELSE IF u.balance < payment THEN revert("Panic")
        ELSE IF u.amountSpent + payment > UINT96_MAX THEN revert("Panic")
        ELSE IF transmitters[sender] + payment > UINT96_MAX
        THEN revert("Panic")
        ELSE Outcome(NoErr,
                 [upkeep EXCEPT ![id] =
                     [u EXCEPT !.balance = u.balance - payment,
                               !.amountSpent = u.amountSpent + payment,
                               !.lastPerformBlockNumber =
                                    block % (UINT32_MAX + 1)]],
                 ids,
                 [transmitters EXCEPT ![sender] = @ + payment],
                 <<>>)

\* transmit(reportContext, report, rs, ss, rawVs) sent by sender in block
\* block, with a report for upkeep id checked at checkBlockNumber. The
\* arithmetic on the uint96 amounts reverts when it leaves the type's range;
\* the cast of the block number to uint32 truncates.
transmit(upkeep, ids, transmitters, block, sender, pre, id, checkBlockNumber, valid, maxLinkPayment, enoughGas, payment) ==
    LET u      == upkeep[id]
        failed == performUpkeepWithParams(u, valid, maxLinkPayment, enoughGas)
        revert(e) == Outcome(e, upkeep, ids, transmitters, <<>>)
    IN  IF pre = "Paused" THEN revert("Paused")
        ELSE IF sender \notin Transmitters THEN revert("OnlyActiveKeepers")
        ELSE IF pre # "ok" THEN revert(pre)
        ELSE IF checkBlockNumber <= u.lastPerformBlockNumber
        THEN revert("StaleReport")
        ELSE IF failed # NoErr THEN revert(failed)
        ELSE IF u.balance < payment THEN revert("Panic")
        ELSE IF u.amountSpent + payment > UINT96_MAX THEN revert("Panic")
        ELSE IF transmitters[sender] + payment > UINT96_MAX
        THEN revert("Panic")
        ELSE Outcome(NoErr,
                 [upkeep EXCEPT ![id] =
                     [u EXCEPT !.balance = u.balance - payment,
                               !.amountSpent = u.amountSpent + payment,
                               !.lastPerformBlockNumber =
                                    block % (UINT32_MAX + 1)]],
                 ids,
                 [transmitters EXCEPT ![sender] = @ + payment],
                 <<>>)

\* onTokenTransfer(sender, amount, data) for upkeep id, which is not
\* cancelled: the amount, cast to uint96, is added to the upkeep's balance.
onTokenTransfer(upkeep, ids, transmitters, fromLink, id, amount) ==
    IF ~fromLink
    THEN Outcome("OnlyCallableByLINKToken", upkeep, ids, transmitters, <<>>)
    ELSE IF upkeep[id].balance + (amount % (UINT96_MAX + 1)) > UINT96_MAX
    THEN Outcome("Panic", upkeep, ids, transmitters, <<>>)
    ELSE Outcome(NoErr,
                 [upkeep EXCEPT ![id].balance = @ + (amount % (UINT96_MAX + 1))],
                 ids, transmitters, <<>>)

\* The registry with its upkeeps registered, not paused, not funded and
\* never performed, in a block that follows the registration.
RegistryInit ==
    /\ s_upkeep = [id \in UpkeepIds |->
                     [balance |-> 0, amountSpent |-> 0,
                      lastPerformBlockNumber |-> 0, paused |-> FALSE]]
    /\ s_upkeepIDs = <<1, 2>>
    /\ s_transmitters = [t \in Transmitters |-> 0]
    /\ blockNumber = 1
    /\ regCall = [op |-> "none", reverted |-> FALSE]

(* ============================ the pipeline ============================= *)
(* pipeline.Parse and Pipeline.MinTimeout. A DOT text is taken as the      *)
(* graph it describes: its node names and its edges.                       *)

NodeNames == {"a", "b", "c"}
InputTaskKey == "input"
MaxEdges == 3
MaxTasks == 3

\* The largest time.Duration, scaled down.
MaxDuration == 2

DotNames == NodeNames \cup {InputTaskKey}

\* The graphs a DOT text can describe, and a text that is not DOT.
DotGraphs ==
    UNION { { [nodes |-> N, edges |-> E, wellFormed |-> TRUE] :
                E \in {F \in SUBSET (N \X N) : Cardinality(F) <= MaxEdges} } :
            N \in SUBSET DotNames }
    \cup {[nodes |-> {}, edges |-> {}, wellFormed |-> FALSE]}

\* The nodes that can be reached from n over one edge or more.
RECURSIVE ReachIn(_, _, _)
ReachIn(g, from, k) ==
    IF k = 0 THEN {}
    ELSE LET next == {e[2] : e \in {f \in g.edges : f[1] \in from}}
         IN  next \cup ReachIn(g, next, k - 1)

Reach(g, n) == ReachIn(g, {n}, Cardinality(g.nodes))

\* topo.TarjanSCC: the strongly connected component of n.
Scc(g, n) == {n} \cup {m \in Reach(g, n) : n \in Reach(g, m)}

\* topo.SortStabilized fails when a component has more than one node.
Unorderable(g) == \E n \in g.nodes : Cardinality(Scc(g, n)) > 1

\* The orders topo.SortStabilized can return for a graph it can order: every
\* node once, the node an edge leaves before the node it enters.
TopoOrders(g) ==
    LET n == Cardinality(g.nodes)
    IN  {o \in [1..n -> g.nodes] :
            /\ \A i, j \in 1..n : o[i] = o[j] => i = j
            /\ \A e \in g.edges :
                 \E i, j \in 1..n : o[i] = e[1] /\ o[j] = e[2] /\ i < j}

\* The place of node n in the order o, counted from 0 as the loop of Parse
\* counts.
IdOf(o, n) == (CHOOSE i \in 1..Len(o) : o[i] = n) - 1

\* The tasks of Parse for the order o once the edges are linked again.
LinkedTasks(g, o) ==
    [i \in 1..Len(o) |->
        [id      |-> i - 1,
         dotID   |-> o[i],
         outputs |-> {IdOf(o, e[2]) : e \in {f \in g.edges : f[1] = o[i]}},
         inputs  |-> {IdOf(o, e[1]) : e \in {f \in g.edges : f[2] = o[i]}}]]

\* What Parse gives for the order o when UnmarshalTaskFromMap fails for the
\* nodes of failing: the loop returns at the first node that has the reserved
\* name or whose task cannot be built.
ParseOrdered(g, o, failing) ==
    IF \E i \in 1..Len(o) : o[i] = InputTaskKey \/ o[i] \in failing
    THEN [kind |-> "error", Tasks |-> <<>>]
    ELSE [kind |-> "pipeline", Tasks |-> LinkedTasks(g, o)]

\* Parse(text): what a call can end with. simple.DirectedGraph.SetEdge
\* panics on an edge from a node to itself, and neither dot.Unmarshal nor
\* Graph.UnmarshalText nor Parse recovers from it.
Parse(g) ==
    IF ~g.wellFormed
    THEN {[kind |-> "error", Tasks |-> <<>>]}
    ELSE IF \E n \in g.nodes : <<n, n>> \in g.edges
    THEN {[kind |-> "panic", Tasks |-> <<>>]}
    ELSE IF Unorderable(g)
    THEN {[kind |-> "error", Tasks |-> <<>>]}
    ELSE {ParseOrdered(g, o, failing) :
             o \in TopoOrders(g), failing \in SUBSET g.nodes}

\* Task.TaskTimeout() of the tasks a pipeline can hold: a duration and
\* whether it is set.
Durations == -1..MaxDuration
TaskTimeouts == [timeout : Durations, set : BOOLEAN]

TaskLists == UNION {[1..n -> TaskTimeouts] : n \in 0..MaxTasks}

\* The loop of MinTimeout from task i on.
RECURSIVE MinTimeoutFrom(_, _, _, _)
MinTimeoutFrom(ts, i, minTimeout, aTimeoutSet) ==
    IF i > Len(ts)
    THEN [minTimeout |-> minTimeout, aTimeoutSet |-> aTimeoutSet, err |-> "nil"]
    ELSE IF ts[i].set /\ ts[i].timeout < minTimeout
    THEN MinTimeoutFrom(ts, i + 1, ts[i].timeout, TRUE)
    ELSE MinTimeoutFrom(ts, i + 1, minTimeout, aTimeoutSet)

\* Pipeline.MinTimeout().
MinTimeout(ts) == MinTimeoutFrom(ts, 1, MaxDuration, FALSE)

\* No pipeline has been parsed and no timeout asked for.
PipelineIdle ==
    /\ dotGraph = [nodes |-> {}, edges |-> {}, wellFormed |-> TRUE]
    /\ parsed = [kind |-> "none", Tasks |-> <<>>]
    /\ tasks = <<>>
    /\ minTimeoutRet = [minTimeout |-> 0, aTimeoutSet |-> FALSE, err |-> "none"]

(* ------------------------------ lifecycle ------------------------------ *)

\* starter.StartOnce: the function runs only on the first call.
StartOnce(state) ==
    IF state = "Unstarted"
    THEN [run |-> TRUE,  state |-> "Started"]
    ELSE [run |-> FALSE, state |-> state]

\* The manager after NewTxm.
TxmInit ==
    /\ msgs = <<>>
    /\ starter = "Unstarted"
    /\ startRet = "none"
    /\ nSubs = 0
    /\ nLoops = 0
    /\ sub = "nil"
    /\ loop = "none"
    /\ tick = FALSE
    /\ events = 0
    /\ closer = [c \in Closers |-> "idle"]
    /\ unstarted = <<>>
    /\ gp = NoQuote
    /\ msgsByFrom = EmptyMap
    /\ idsByFrom = EmptyMap
    /\ todo = {}
    /\ calls = EmptyMap
    /\ result = EmptyMap
    /\ retry = {}
    /\ late = {}

Init ==
    /\ TxmInit
    /\ RegistryInit
    /\ PipelineIdle

\* Start without the StartOnce guard: every call subscribes and launches run.
StartNoOnce ==
    /\ starter' = "Started"
    /\ \E subscribeErr \in BOOLEAN :
         IF subscribeErr
         THEN /\ startRet' = "subscribeErr"
              /\ UNCHANGED <<nSubs, nLoops, sub, loop>>
         ELSE /\ startRet' = "ok"
              /\ nSubs' = nSubs + 1
              /\ sub' = "open"
              /\ nLoops' = nLoops + 1
              /\ loop' = "select"
    /\ UNCHANGED <<storeVars, envVars, closer, cycleVars, retry, late,
                   regVars, pipeVars>>

\* Start going on to launch run when Subscribe failed (the `return err` is
\* missing).
StartLaunchOnErr ==
    LET once == StartOnce(starter) IN
    /\ starter' = once.state
    /\ IF ~once.run
       THEN /\ startRet' = "alreadyStarted"
            /\ UNCHANGED <<nSubs, nLoops, sub, loop>>
       ELSE \E subscribeErr \in BOOLEAN :
              IF subscribeErr
              THEN /\ startRet' = "subscribeErr"
                   /\ nLoops' = nLoops + 1
                   /\ loop' = "select"
                   /\ UNCHANGED <<nSubs, sub>>
              ELSE /\ startRet' = "ok"
                   /\ nSubs' = nSubs + 1
                   /\ sub' = "open"
                   /\ nLoops' = nLoops + 1
                   /\ loop' = "select"
    /\ UNCHANGED <<storeVars, envVars, closer, cycleVars, retry, late,
                   regVars, pipeVars>>

\* Start(): a call after the first returns the already-started error; the
\* first one subscribes and, unless that fails, launches run.
Start ==
    LET once == StartOnce(starter) IN
    /\ starter' = once.state
    /\ IF ~once.run
       THEN /\ startRet' = "alreadyStarted"
            /\ UNCHANGED <<nSubs, nLoops, sub, loop>>
       ELSE \E subscribeErr \in BOOLEAN :
              IF subscribeErr
              THEN /\ startRet' = "subscribeErr"
                   /\ UNCHANGED <<nSubs, nLoops, sub, loop>>
              ELSE /\ startRet' = "ok"
                   /\ nSubs' = nSubs + 1
                   /\ sub' = "open"
                   /\ nLoops' = nLoops + 1
                   /\ loop' = "select"
    /\ UNCHANGED <<storeVars, envVars, closer, cycleVars, retry, late,
                   regVars, pipeVars>>

\* Close(): the caller blocks sending on txm.stop.
Close(c) ==
    /\ closer[c] = "idle"
    /\ closer' = [closer EXCEPT ![c] = "stop"]
    /\ UNCHANGED <<storeVars, lifeVars, loop, envVars, cycleVars, retry, late,
                   regVars, pipeVars>>

\* Close returning once its stop signal was taken, without receiving from
\* txm.done.
CloseNoWait(c) ==
    /\ closer[c] = "done"
    /\ closer' = [closer EXCEPT ![c] = "returned"]
    /\ UNCHANGED <<storeVars, lifeVars, loop, envVars, cycleVars, retry, late,
                   regVars, pipeVars>>

\* Close(): the caller receives from txm.done, which the exiting run sends,
\* and returns.
CloseDone(c) ==
    /\ closer[c] = "done"
    /\ loop = "done"
    /\ closer' = [closer EXCEPT ![c] = "returned"]
    /\ loop' = "exited"
    /\ UNCHANGED <<storeVars, lifeVars, envVars, cycleVars, retry, late,
                   regVars, pipeVars>>

\* Healthy() and Ready(): both return nil; they read no field of the manager.
Healthy == "nil"

Ready == "nil"

\* Enqueue returning success with no id when the insert failed (the error is
\* dropped).
EnqueueCallDropErr(rows, payload, insertErr) ==
    IF insertErr
    THEN [rows |-> rows, id |-> 0, err |-> FALSE]
    ELSE [rows |-> InsertMsg(rows, payload),
          id   |-> InsertMsg(rows, payload)[Len(rows) + 1].ID,
          err  |-> FALSE]

\* What a call of Enqueue does and returns: it passes on the id and the error
\* of orm.InsertMsg.
EnqueueCall(rows, payload, insertErr) ==
    IF insertErr
    THEN [rows |-> rows, id |-> 0, err |-> TRUE]
    ELSE [rows |-> InsertMsg(rows, payload),
          id   |-> InsertMsg(rows, payload)[Len(rows) + 1].ID,
          err  |-> FALSE]

\* Enqueue(): the row is inserted, or the insert fails and nothing is stored.
Enqueue(payload) ==
    /\ Len(msgs) < MaxMsgs
    /\ \E insertErr \in BOOLEAN :
         LET r == EnqueueCall(msgs, payload, insertErr)
         IN  /\ msgs' = r.rows
             /\ late' = IF loop = "groups" /\ ~r.err
                         THEN late \cup {r.id}
                         ELSE late
    /\ UNCHANGED <<lifeVars, loop, envVars, closer, cycleVars, retry,
                   regVars, pipeVars>>

(* --------------------------- trigger sources --------------------------- *)

\* The ticker fires: ticker.C holds at most one tick.
Tick ==
    /\ ~tick
    /\ tick' = TRUE
    /\ UNCHANGED <<storeVars, lifeVars, loop, events, closer, cycleVars, retry, late,
                   regVars, pipeVars>>

\* A notification arrives on the subscription.
Notify ==
    /\ sub = "open"
    /\ events < MaxEvents
    /\ events' = events + 1
    /\ UNCHANGED <<storeVars, lifeVars, loop, tick, closer, cycleVars, retry, late,
                   regVars, pipeVars>>

(* ------------------------------- run ----------------------------------- *)

\* select, case <-sub.Events()
RunEvent ==
    /\ loop = "select"
    /\ events > 0
    /\ events' = events - 1
    /\ loop' = "batch"
    /\ UNCHANGED <<storeVars, lifeVars, tick, closer, cycleVars, retry, late,
                   regVars, pipeVars>>

\* The ticker case starting sendMsgBatch without waiting for the one that is
\* running (a `go txm.sendMsgBatch()`): a tick is also taken in mid-cycle.
RunTickConcurrent ==
    /\ loop \in {"select", "groups"}
    /\ tick
    /\ tick' = FALSE
    /\ loop' = "batch"
    /\ UNCHANGED <<storeVars, lifeVars, events, closer, cycleVars, retry, late,
                   regVars, pipeVars>>

\* The ticker case receiving the tick without calling sendMsgBatch.
RunTickSkip ==
    /\ loop = "select"
    /\ tick
    /\ tick' = FALSE
    /\ UNCHANGED <<storeVars, lifeVars, loop, events, closer, cycleVars, retry, late,
                   regVars, pipeVars>>

\* select, case <-txm.ticker.C
RunTick ==
    /\ loop = "select"
    /\ tick
    /\ tick' = FALSE
    /\ loop' = "batch"
    /\ UNCHANGED <<storeVars, lifeVars, events, closer, cycleVars, retry, late,
                   regVars, pipeVars>>

\* select, case <-txm.stop: the subscription is closed and run returns; its
\* deferred function then blocks sending on txm.done.
RunStop(c) ==
    /\ loop = "select"
    /\ closer[c] = "stop"
    /\ closer' = [closer EXCEPT ![c] = "done"]
    /\ sub' = "closed"
    /\ loop' = "done"
    /\ UNCHANGED <<storeVars, starter, startRet, nSubs, nLoops, envVars, cycleVars, retry, late,
                   regVars, pipeVars>>

(* ---------------------------- sendMsgBatch ----------------------------- *)

\* sendMsgBatch asking for the gas price before it reads the store: the quote
\* is also taken by a cycle that then finds nothing to send.
LoadBatchQuoteFirst ==
    /\ loop = "batch"
    /\ \E selectErr \in BOOLEAN, quote \in GasPrices :
         LET rows == SelectMsgsWithState(msgs, Unstarted)
             g    == Group(rows)
         IN  IF selectErr \/ Len(rows) = 0
             THEN /\ loop' = "select"
                  /\ gp' = quote
                  /\ UNCHANGED <<unstarted, msgsByFrom, idsByFrom, todo, calls,
                                 result, retry, late>>
             ELSE /\ loop' = "groups"
                  /\ unstarted' = rows
                  /\ gp' = quote
                  /\ msgsByFrom' = g.msgs
                  /\ idsByFrom' = g.ids
                  /\ todo' = DOMAIN g.msgs
                  /\ calls' = [k \in DOMAIN g.msgs |-> <<>>]
                  /\ result' = [k \in DOMAIN g.msgs |-> "none"]
                  /\ retry' = {}
                  /\ late' = {}
    /\ UNCHANGED <<storeVars, lifeVars, envVars, closer,
                   regVars, pipeVars>>

\* sendMsgBatch up to the range loop: the Unstarted rows are read; a failed
\* read or an empty result ends the cycle, otherwise the rows are grouped by
\* sender.
LoadBatch ==
    /\ loop = "batch"
    /\ \E selectErr \in BOOLEAN :
         LET rows == SelectMsgsWithState(msgs, Unstarted)
             g    == Group(rows)
         IN  IF selectErr \/ Len(rows) = 0
             THEN /\ loop' = "select"
                  /\ UNCHANGED <<cycleVars, retry, late>>
             ELSE /\ loop' = "groups"
                  /\ unstarted' = rows
                  /\ \E quote \in GasPrices : gp' = quote
                  /\ msgsByFrom' = g.msgs
                  /\ idsByFrom' = g.ids
                  /\ todo' = DOMAIN g.msgs
                  /\ calls' = [k \in DOMAIN g.msgs |-> <<>>]
                  /\ result' = [k \in DOMAIN g.msgs |-> "none"]
                  /\ retry' = {}
                  /\ late' = {}
    /\ UNCHANGED <<storeVars, lifeVars, envVars, closer,
                   regVars, pipeVars>>

\* The calls one iteration of the range loop makes when nothing ends it
\* early, for sender s with messages batch and ids ids, each with its answer.
GroupCalls(s, batch, ids, accountErr, sn, keyErr, broadcastErr, txes, upd) ==
    << CallSeq("Account", s, IF accountErr THEN "err" ELSE "ok", sn),
       Call("Get", s, IF keyErr THEN "err" ELSE "ok"),
       CallGas("SignAndBroadcast", batch, IF broadcastErr THEN "err" ELSE "ok",
               sn, gp),
       Call("TxsEvents", s, TxsRet(txes)),
       Call("UpdateMsgsWithState", ids, IF upd.err THEN "err" ELSE "ok") >>

\* An iteration that ends in a continue after its first n calls.
Continue(cs, n, why, rows) ==
    [calls |-> SubSeq(cs, 1, n), result |-> why, rows |-> rows]

\* SendGroup with the count test weakened: any non-empty lookup result counts
\* as confirmation.
SendGroupAnyCount(s, batch, ids, rows, accountErr, sn, keyErr, broadcastErr, txes, upd) ==
    LET cs == GroupCalls(s, batch, ids, accountErr, sn, keyErr, broadcastErr, txes, upd)
    IN  IF accountErr THEN Continue(cs, 1, "accountErr", rows)
        ELSE IF keyErr THEN Continue(cs, 2, "keyErr", rows)
        ELSE IF broadcastErr THEN Continue(cs, 3, "broadcastErr", rows)
        ELSE IF txes.err THEN Continue(cs, 4, "lookupErr", rows)
        ELSE IF txes.isNil THEN Continue(cs, 4, "lookupNil", rows)
        ELSE IF txes.num = 0 THEN Continue(cs, 4, "lookupCount", rows)
        ELSE [calls  |-> cs,
              result |-> IF upd.err THEN "updateErr" ELSE "sent",
              rows   |-> UpdateMsgsWithState(rows, upd.done, Completed)]

\* SendGroup marking only the first id of the group.
SendGroupFirstId(s, batch, ids, rows, accountErr, sn, keyErr, broadcastErr, txes, upd) ==
    LET cs == GroupCalls(s, batch, ids, accountErr, sn, keyErr, broadcastErr, txes, upd)
    IN  IF accountErr THEN Continue(cs, 1, "accountErr", rows)
        ELSE IF keyErr THEN Continue(cs, 2, "keyErr", rows)
        ELSE IF broadcastErr THEN Continue(cs, 3, "broadcastErr", rows)
        ELSE IF txes.err THEN Continue(cs, 4, "lookupErr", rows)
        ELSE IF txes.isNil THEN Continue(cs, 4, "lookupNil", rows)
        ELSE IF txes.num # 1 THEN Continue(cs, 4, "lookupCount", rows)
        ELSE [calls  |-> cs,
              result |-> IF upd.err THEN "updateErr" ELSE "sent",
              rows   |-> UpdateMsgsWithState(rows, upd.done \cap {ids[1]}, Completed)]

\* SendGroup removing the rows it has sent instead of marking them.
SendGroupDelete(s, batch, ids, rows, accountErr, sn, keyErr, broadcastErr, txes, upd) ==
    LET cs == GroupCalls(s, batch, ids, accountErr, sn, keyErr, broadcastErr, txes, upd)
    IN  IF accountErr THEN Continue(cs, 1, "accountErr", rows)
        ELSE IF keyErr THEN Continue(cs, 2, "keyErr", rows)
        ELSE IF broadcastErr THEN Continue(cs, 3, "broadcastErr", rows)
        ELSE IF txes.err THEN Continue(cs, 4, "lookupErr", rows)
        ELSE IF txes.isNil THEN Continue(cs, 4, "lookupNil", rows)
        ELSE IF txes.num # 1 THEN Continue(cs, 4, "lookupCount", rows)
        ELSE [calls  |-> cs,
              result |-> IF upd.err THEN "updateErr" ELSE "sent",
              rows   |-> SelectSeq(rows, LAMBDA m : m.ID \notin upd.done)]

\* SendGroup giving a group up after a lookup with a count other than 1: its
\* rows are marked Completed although nothing was confirmed.
SendGroupGiveUp(s, batch, ids, rows, accountErr, sn, keyErr, broadcastErr, txes, upd) ==
    LET cs == GroupCalls(s, batch, ids, accountErr, sn, keyErr, broadcastErr, txes, upd)
    IN  IF accountErr THEN Continue(cs, 1, "accountErr", rows)
        ELSE IF keyErr THEN Continue(cs, 2, "keyErr", rows)
        ELSE IF broadcastErr THEN Continue(cs, 3, "broadcastErr", rows)
        ELSE IF txes.err THEN Continue(cs, 4, "lookupErr", rows)
        ELSE IF txes.isNil THEN Continue(cs, 4, "lookupNil", rows)
        ELSE IF txes.num # 1
        THEN Continue(cs, 4, "lookupCount",
                      UpdateMsgsWithState(rows, Range(ids), Completed))
        ELSE [calls  |-> cs,
              result |-> IF upd.err THEN "updateErr" ELSE "sent",
              rows   |-> UpdateMsgsWithState(rows, upd.done, Completed)]

\* SendGroup going on to sign and broadcast although the key lookup failed.
SendGroupNoKeyCheck(s, batch, ids, rows, accountErr, sn, keyErr, broadcastErr, txes, upd) ==
    LET cs == GroupCalls(s, batch, ids, accountErr, sn, keyErr, broadcastErr, txes, upd)
    IN  IF accountErr THEN Continue(cs, 1, "accountErr", rows)
        ELSE IF broadcastErr THEN Continue(cs, 3, "broadcastErr", rows)
        ELSE IF txes.err THEN Continue(cs, 4, "lookupErr", rows)
        ELSE IF txes.isNil THEN Continue(cs, 4, "lookupNil", rows)
        ELSE IF txes.num # 1 THEN Continue(cs, 4, "lookupCount", rows)
        ELSE [calls  |-> cs,
              result |-> IF upd.err THEN "updateErr" ELSE "sent",
              rows   |-> UpdateMsgsWithState(rows, upd.done, Completed)]

\* SendGroup signing with a sequence number that is not the one Account has
\* just returned (a value kept from before).
SendGroupFixedSeq(s, batch, ids, rows, accountErr, sn, keyErr, broadcastErr, txes, upd) ==
    LET cs0 == GroupCalls(s, batch, ids, accountErr, sn, keyErr, broadcastErr, txes, upd)
        cs  == [cs0 EXCEPT ![3].sn = 0]
    IN  IF accountErr THEN Continue(cs, 1, "accountErr", rows)
        ELSE IF keyErr THEN Continue(cs, 2, "keyErr", rows)
        ELSE IF broadcastErr THEN Continue(cs, 3, "broadcastErr", rows)
        ELSE IF txes.err THEN Continue(cs, 4, "lookupErr", rows)
        ELSE IF txes.isNil THEN Continue(cs, 4, "lookupNil", rows)
        ELSE IF txes.num # 1 THEN Continue(cs, 4, "lookupCount", rows)
        ELSE [calls  |-> cs,
              result |-> IF upd.err THEN "updateErr" ELSE "sent",
              rows   |-> UpdateMsgsWithState(rows, upd.done, Completed)]

\* One iteration of the range loop, given the answers of the collaborators:
\* the calls it makes, the branch that ends it and the rows it leaves in the
\* store.
SendGroup(s, batch, ids, rows, accountErr, sn, keyErr, broadcastErr, txes, upd) ==
    LET cs == GroupCalls(s, batch, ids, accountErr, sn, keyErr, broadcastErr, txes, upd)
    IN  IF accountErr THEN Continue(cs, 1, "accountErr", rows)
        ELSE IF keyErr THEN Continue(cs, 2, "keyErr", rows)
        ELSE IF broadcastErr THEN Continue(cs, 3, "broadcastErr", rows)
        ELSE IF txes.err THEN Continue(cs, 4, "lookupErr", rows)
        ELSE IF txes.isNil THEN Continue(cs, 4, "lookupNil", rows)
        ELSE IF txes.num # 1 THEN Continue(cs, 4, "lookupCount", rows)
        ELSE [calls  |-> cs,
              result |-> IF upd.err THEN "updateErr" ELSE "sent",
              rows   |-> UpdateMsgsWithState(rows, upd.done, Completed)]

\* The range loop leaving at the first iteration that does not end in a
\* successful update (a break or return where the code has continue).
ProcessGroupBreak(s) ==
    /\ loop = "groups"
    /\ s \in todo
    /\ \E a \in Answers(Range(idsByFrom[s])) :
         LET o == SendGroup(s, msgsByFrom[s], idsByFrom[s], msgs,
                            a.accountErr, a.sn, a.keyErr, a.broadcastErr, a.txes, a.upd)
         IN  /\ msgs' = o.rows
             /\ calls' = [calls EXCEPT ![s] = calls[s] \o o.calls]
             /\ result' = [result EXCEPT ![s] = o.result]
             /\ todo' = IF o.result = "sent" THEN todo \ {s} ELSE {}
    /\ UNCHANGED <<lifeVars, loop, envVars, closer, unstarted, gp, msgsByFrom,
                   idsByFrom, retry, late,
                   regVars, pipeVars>>

\* The range loop giving up the cycle when the store update of a group fails
\* (a return where the code has continue).
ProcessGroupAbortOnUpdateErr(s) ==
    /\ loop = "groups"
    /\ s \in todo
    /\ \E a \in Answers(Range(idsByFrom[s])) :
         LET o == SendGroup(s, msgsByFrom[s], idsByFrom[s], msgs,
                            a.accountErr, a.sn, a.keyErr, a.broadcastErr, a.txes, a.upd)
         IN  /\ msgs' = o.rows
             /\ calls' = [calls EXCEPT ![s] = calls[s] \o o.calls]
             /\ result' = [result EXCEPT ![s] = o.result]
             /\ todo' = IF o.result = "updateErr" THEN {} ELSE todo \ {s}
    /\ UNCHANGED <<lifeVars, loop, envVars, closer, unstarted, gp, msgsByFrom,
                   idsByFrom, retry, late,
                   regVars, pipeVars>>

\* The range loop asking for a gas price in every iteration and signing with
\* that one.
ProcessGroupRequote(s) ==
    /\ loop = "groups"
    /\ s \in todo
    /\ \E a \in Answers(Range(idsByFrom[s])), quote \in GasPrices :
         LET o == SendGroup(s, msgsByFrom[s], idsByFrom[s], msgs,
                            a.accountErr, a.sn, a.keyErr, a.broadcastErr, a.txes, a.upd)
             cs == [i \in 1..Len(o.calls) |->
                      IF o.calls[i].op = "SignAndBroadcast"
                      THEN [o.calls[i] EXCEPT !.gp = quote]
                      ELSE o.calls[i]]
         IN  /\ msgs' = o.rows
             /\ calls' = [calls EXCEPT ![s] = calls[s] \o cs]
             /\ result' = [result EXCEPT ![s] = o.result]
             /\ gp' = quote
    /\ todo' = todo \ {s}
    /\ UNCHANGED <<lifeVars, loop, envVars, closer, unstarted, msgsByFrom,
                   idsByFrom, retry, late,
                   regVars, pipeVars>>

\* The range loop marking, after a confirmed group, every row of the sender
\* that is Unstarted in the store at that moment rather than the ids it read.
ProcessGroupWholeStore(s) ==
    /\ loop = "groups"
    /\ s \in todo
    /\ \E a \in Answers(Range(idsByFrom[s])) :
         LET o == SendGroup(s, msgsByFrom[s], idsByFrom[s], msgs,
                            a.accountErr, a.sn, a.keyErr, a.broadcastErr, a.txes, a.upd)
             now == {m.ID : m \in Range(SelectMsgsWithState(msgs, Unstarted))}
         IN  /\ msgs' = IF o.result = "sent"
                        THEN UpdateMsgsWithState(o.rows, now, Completed)
                        ELSE o.rows
             /\ calls' = [calls EXCEPT ![s] = calls[s] \o o.calls]
             /\ result' = [result EXCEPT ![s] = o.result]
    /\ todo' = todo \ {s}
    /\ UNCHANGED <<lifeVars, loop, envVars, closer, unstarted, gp, msgsByFrom,
                   idsByFrom, retry, late,
                   regVars, pipeVars>>

\* The range loop visits a sender it has not visited yet, in no fixed order.
ProcessGroup(s) ==
    /\ loop = "groups"
    /\ s \in todo
    /\ \E a \in Answers(Range(idsByFrom[s])) :
         LET o == SendGroup(s, msgsByFrom[s], idsByFrom[s], msgs,
                            a.accountErr, a.sn, a.keyErr, a.broadcastErr, a.txes, a.upd)
         IN  /\ msgs' = o.rows
             /\ calls' = [calls EXCEPT ![s] = calls[s] \o o.calls]
             /\ result' = [result EXCEPT ![s] = o.result]
    /\ todo' = todo \ {s}
    /\ UNCHANGED <<lifeVars, loop, envVars, closer, unstarted, gp, msgsByFrom,
                   idsByFrom, retry, late,
                   regVars, pipeVars>>

\* The range loop is over: sendMsgBatch returns and nothing of the cycle is
\* kept.
EndBatch ==
    /\ loop = "groups"
    /\ todo = {}
    /\ loop' = "select"
    /\ unstarted' = <<>>
    /\ gp' = NoQuote
    /\ msgsByFrom' = EmptyMap
    /\ idsByFrom' = EmptyMap
    /\ todo' = {}
    /\ calls' = EmptyMap
    /\ result' = EmptyMap
    /\ retry' = {m \in Range(unstarted) :
                    \E s \in DOMAIN result :
                       result[s] = "lookupCount" /\ m.ID \in Range(idsByFrom[s])}
    /\ UNCHANGED <<storeVars, lifeVars, envVars, closer, late,
                   regVars, pipeVars>>

(* ---------------------------- specification ---------------------------- *)

Next ==
    \/ Start
    \/ \E c \in Closers : Close(c)
    \/ \E c \in Closers : CloseDone(c)
    \/ \E p \in Payloads : Enqueue(p)
    \/ Tick
    \/ Notify
    \/ RunEvent
    \/ RunTick
    \/ \E c \in Closers : RunStop(c)
    \/ LoadBatch
    \/ \E s \in todo : ProcessGroup(s)
    \/ EndBatch

Spec == Init /\ [][Next]_vars

(* ------------------- the keeper registry: its calls -------------------- *)

\* A call of the registry has ended with outcome r.
Applied(op, r) ==
    /\ s_upkeep' = r.upkeep
    /\ s_upkeepIDs' = r.ids
    /\ s_transmitters' = r.transmitters
    /\ regCall' = [op |-> op, reverted |-> r.err # NoErr]
    /\ UNCHANGED <<blockNumber, txmVars, pipeVars>>

PauseUpkeep ==
    \E isAdmin \in BOOLEAN, id \in UpkeepIds :
       Applied("pauseUpkeep",
               pauseUpkeep(s_upkeep, s_upkeepIDs, s_transmitters, isAdmin, id))

UnpauseUpkeep ==
    \E isAdmin \in BOOLEAN, id \in UpkeepIds :
       Applied("unpauseUpkeep",
               unpauseUpkeep(s_upkeep, s_upkeepIDs, s_transmitters, isAdmin, id))

GetActiveUpkeepIDs ==
    \E startIndex \in 0..Cardinality(UpkeepIds),
       maxCount \in 0..Cardinality(UpkeepIds) :
       Applied("getActiveUpkeepIDs",
               getActiveUpkeepIDs(s_upkeep, s_upkeepIDs, s_transmitters,
                                  startIndex, maxCount))

\* The answers of the helpers a simulatePerformUpkeep can meet, each once.
SimulateInputs ==
    LET all == [pre : {"ok", "Paused"}, id : UpkeepIds, valid : BOOLEAN,
                maxLinkPayment : Amounts, enoughGas : BOOLEAN]
    IN  {i \in all :
           /\ i.pre # "ok" => i.valid /\ i.id = 1
           /\ ~(i.pre = "ok" /\ i.valid) =>
                 i.maxLinkPayment = 0 /\ i.enoughGas}

SimulatePerformUpkeep ==
    \E i \in SimulateInputs :
       Applied("simulatePerformUpkeep",
               simulatePerformUpkeep(s_upkeep, s_upkeepIDs, s_transmitters,
                                     i.pre, i.id, i.valid, i.maxLinkPayment,
                                     i.enoughGas))

\* The senders, reports and answers of the helpers a transmit can meet, each
\* once: what a call does not get to is left at a fixed value.
TransmitInputs ==
    LET all == [sender : Accounts, pre : PreChecks, id : UpkeepIds,
                checkBlockNumber : CheckBlocks, valid : BOOLEAN,
                maxLinkPayment : Amounts, enoughGas : BOOLEAN,
                payment : Amounts]
        decoded(i)   == i.pre = "ok" /\ i.sender \in Transmitters
        performed(i) == decoded(i) /\ i.valid /\ i.enoughGas
    IN  {i \in all :
           /\ ~decoded(i) => i.checkBlockNumber = 0 /\ i.valid /\ i.id = 1
           /\ ~(decoded(i) /\ i.valid) => i.maxLinkPayment = 0 /\ i.enoughGas
           /\ ~performed(i) => i.payment = 0}

Transmit ==
    \E i \in TransmitInputs :
       Applied("transmit",
               transmit(s_upkeep, s_upkeepIDs, s_transmitters, blockNumber,
                        i.sender, i.pre, i.id, i.checkBlockNumber, i.valid,
                        i.maxLinkPayment, i.enoughGas, i.payment))

OnTokenTransfer ==
    \E fromLink \in BOOLEAN, id \in UpkeepIds, amount \in Amounts :
       Applied("onTokenTransfer",
               onTokenTransfer(s_upkeep, s_upkeepIDs, s_transmitters,
                               fromLink, id, amount))

\* The chain goes on to its next block, as long as uint32 holds the number.
Mine ==
    /\ blockNumber < UINT32_MAX
    /\ blockNumber' = blockNumber + 1
    /\ regCall' = [op |-> "mine", reverted |-> FALSE]
    /\ UNCHANGED <<s_upkeep, s_upkeepIDs, s_transmitters, txmVars, pipeVars>>

RegistryNext ==
    \/ PauseUpkeep
    \/ UnpauseUpkeep
    \/ GetActiveUpkeepIDs
    \/ SimulatePerformUpkeep
    \/ Transmit
    \/ OnTokenTransfer
    \/ Mine

RegistrySpec == Init /\ [][RegistryNext]_vars

(* ----------------------- the pipeline: its calls ----------------------- *)

\* Parse is called with a text.
ParseInit ==
    /\ TxmInit
    /\ RegistryInit
    /\ dotGraph \in DotGraphs
    /\ parsed = [kind |-> "none", Tasks |-> <<>>]
    /\ tasks = <<>>
    /\ minTimeoutRet = [minTimeout |-> 0, aTimeoutSet |-> FALSE, err |-> "none"]

DoParse ==
    /\ parsed.kind = "none"
    /\ parsed' \in Parse(dotGraph)
    /\ UNCHANGED <<dotGraph, tasks, minTimeoutRet, txmVars, regVars>>

ParseSpec == ParseInit /\ [][DoParse]_vars

\* MinTimeout is called on a pipeline with these tasks.
MinTimeoutInit ==
    /\ TxmInit
    /\ RegistryInit
    /\ dotGraph = [nodes |-> {}, edges |-> {}, wellFormed |-> TRUE]
    /\ parsed = [kind |-> "none", Tasks |-> <<>>]
    /\ tasks \in TaskLists
    /\ minTimeoutRet = [minTimeout |-> 0, aTimeoutSet |-> FALSE, err |-> "none"]

DoMinTimeout ==
    /\ minTimeoutRet.err = "none"
    /\ minTimeoutRet' = MinTimeout(tasks)
    /\ UNCHANGED <<dotGraph, parsed, tasks, txmVars, regVars>>

MinTimeoutSpec == MinTimeoutInit /\ [][DoMinTimeout]_vars

\* The manager that is never closed and gets no notification: Close() is not
\* called, so run never takes the stop case, and every notification is lost,
\* so only the ticker starts cycles.
NextLive ==
    \/ Start
    \/ \E p \in Payloads : Enqueue(p)
    \/ Tick
    \/ RunTick
    \/ LoadBatch
    \/ \E s \in todo : ProcessGroup(s)
    \/ EndBatch

\* The keys the grouping can produce.
Keys == {Unmarshal(p).ms.Sender : p \in Payloads}

\* The read of the store succeeds and finds rows.
LoadBatchOk == LoadBatch /\ loop' = "groups"

\* The iteration for sender s gets through to a successful update.
ProcessGroupSent(s) == ProcessGroup(s) /\ result'[s] = "sent"

\* A step of the ticker or of the run goroutine.
LoopStep ==
    Tick \/ RunTick \/ LoadBatch \/ (\E s \in todo : ProcessGroup(s)) \/ EndBatch

\* The ticker keeps firing and the run goroutine keeps being scheduled (weak
\* fairness of their steps); the store, the chain client and the key provider
\* fail only transiently (strong fairness of the successful outcomes).
LiveFairness ==
    /\ WF_vars(LoopStep)
    /\ SF_vars(LoadBatchOk)
    /\ \A s \in Keys : SF_vars(ProcessGroupSent(s))

LiveSpec == Init /\ [][NextLive]_vars /\ LiveFairness

(* ------------------------- vocabulary of the claims -------------------- *)

\* The groups of the running cycle.
Groups == DOMAIN idsByFrom

IdsOf(s) == Range(idsByFrom[s])

\* The answer the call op got in the call list cs, "none" if it was not made.
Ret(cs, op) ==
    IF \E i \in 1..Len(cs) : cs[i].op = op
    THEN cs[CHOOSE i \in 1..Len(cs) : cs[i].op = op].ret
    ELSE "none"

\* How often op occurs in cs.
Count(cs, op) == Cardinality({i \in 1..Len(cs) : cs[i].op = op})

\* Account, key and broadcast succeeded and the lookup found exactly one
\* transaction.
Confirmed(cs) ==
    /\ Ret(cs, "Account") = "ok"
    /\ Ret(cs, "Get") = "ok"
    /\ Ret(cs, "SignAndBroadcast") = "ok"
    /\ Ret(cs, "TxsEvents") = "n1"

\* The range loop visits group s in this step.
Visits(s) ==
    /\ loop = "groups"
    /\ s \in todo
    /\ s \notin todo'
    /\ s \in DOMAIN calls'

\* The row with this id is in rows, in this state.
HasState(rows, id, state) ==
    \E m \in Range(rows) : m.ID = id /\ m.State = state

\* The row with this id is the same in both stores.
SameRow(rowsA, rowsB, id) ==
    \A m \in Range(rowsA) : m.ID = id => m \in Range(rowsB)

(* -------------------------------- claims ------------------------------- *)

\* C1: in a dispatch cycle a message goes from Unstarted to Completed only in
\* the iteration of its own sender group and only if, in that iteration,
\* Account, the key lookup and SignAndBroadcast succeeded and the lookup for
\* the hash returned exactly one transaction; an iteration in which one of
\* them failed, or the lookup returned nil or a count other than 1, changes
\* no message of its group.
C1_CompletedOnlyWhenConfirmed ==
    [][ /\ \A m \in Range(msgs) :
             (m.State = Unstarted /\ HasState(msgs', m.ID, Completed))
             => \E s \in Groups :
                    /\ m.ID \in IdsOf(s)
                    /\ Visits(s)
                    /\ Confirmed(calls'[s])
        /\ \A s \in Groups :
             (Visits(s) /\ ~Confirmed(calls'[s]))
             => \A id \in IdsOf(s) : SameRow(msgs, msgs', id)
      ]_vars

\* C1 witness: a group's iteration has ended on a lookup that found two
\* transactions, and its messages are Unstarted.
C1_Witness ==
    /\ loop = "groups"
    /\ \E s \in Groups :
         /\ Ret(calls[s], "TxsEvents") = "many"
         /\ \A id \in IdsOf(s) : HasState(msgs, id, Unstarted)

\* C2: once a group's broadcast succeeded, the lookup found exactly one
\* transaction and the store update succeeded, every message of the group is
\* Completed until the end of the cycle, and the iteration changed no row
\* outside the group.
C2_GroupCompleted ==
    /\ [](loop = "groups" =>
            \A s \in Groups :
                (Confirmed(calls[s]) /\ Ret(calls[s], "UpdateMsgsWithState") = "ok")
                => \A id \in IdsOf(s) : HasState(msgs, id, Completed))
    /\ [][ \A s \in Groups :
             Visits(s) =>
                \A m \in Range(msgs) : m.ID \notin IdsOf(s) => m \in Range(msgs')
         ]_vars

\* C2 witness: the cycle is over, a group of two messages was confirmed and
\* updated, and both are Completed.
C2_Witness ==
    /\ loop = "groups"
    /\ todo = {}
    /\ \E s \in Groups :
         /\ Len(idsByFrom[s]) = 2
         /\ Confirmed(calls[s])
         /\ Ret(calls[s], "UpdateMsgsWithState") = "ok"
         /\ \A id \in IdsOf(s) : HasState(msgs, id, Completed)

\* C3: in every step every row stays in the store with its id and payload,
\* and a Completed row stays Completed.
C3_StateOnlyAdvances ==
    [][ \A m \in Range(msgs) :
           \E n \in Range(msgs') :
              /\ n.ID = m.ID
              /\ n.Msg = m.Msg
              /\ n.State \in {Unstarted, Completed}
              /\ m.State = Completed => n.State = Completed
      ]_vars

\* C3 witness: a later cycle is running while a row completed by an earlier
\* one is still in the store, Completed.
C3_Witness ==
    /\ loop = "groups"
    /\ \E m \in Range(msgs) :
         /\ m.State = Completed
         /\ \A s \in Groups : m.ID \notin IdsOf(s)

\* The sender a row is grouped under.
SenderOf(m) == Unmarshal(m.Msg).ms.Sender

\* Group s's lookup returned no transaction or more than one.
Indeterminate(cs) == Ret(cs, "TxsEvents") \in {"n0", "many"}

\* The rows of retry are Unstarted in the store, as they were read.
RetryKept == retry \subseteq Range(msgs)

\* In a running cycle a group whose lookup was indeterminate keeps its rows as
\* they were read, and every visited group began with the Account call.
IndeterminateKept ==
    loop = "groups" =>
        \A s \in Groups :
            /\ Indeterminate(calls[s]) =>
                   \A m \in Range(unstarted) : m.ID \in IdsOf(s) => m \in Range(msgs)
            /\ s \notin todo => (Len(calls[s]) >= 1 /\ calls[s][1].op = "Account")

\* The cycle that has just read the store holds every row of retry in the batch
\* of its sender, not visited yet.
RetryLoaded ==
    /\ loop' = "groups"
    /\ \A m \in retry :
         /\ SenderOf(m) \in DOMAIN idsByFrom'
         /\ m.ID \in Range(idsByFrom'[SenderOf(m)])
         /\ SenderOf(m) \in todo'
         /\ calls'[SenderOf(m)] = <<>>

\* C4 as stated: after a lookup that found zero or several transactions the
\* group's messages are Unstarted with their payload after the cycle, and the
\* next cycle holds them again in their sender's batch and attempts the group
\* from the Account call.
C4_NextCycleRetries ==
    /\ []RetryKept
    /\ []IndeterminateKept
    /\ [][(loop = "batch" /\ loop' # "batch" /\ retry # {}) => RetryLoaded]_vars

\* C4 amended: the same, for the next cycle whose read of the store succeeds;
\* a cycle whose read fails attempts no group and leaves the rows as they are.
C4_NextLoadedCycleRetries ==
    /\ []RetryKept
    /\ []IndeterminateKept
    /\ [][(loop = "batch" /\ loop' = "groups") => RetryLoaded]_vars
    /\ [][(loop = "batch" /\ loop' = "select") => (retry' = retry /\ msgs' = msgs)]_vars

\* C4 witness: a cycle left two rows of one group after an indeterminate
\* lookup and the next cycle is about to read the store.
C4_Witness ==
    /\ loop = "batch"
    /\ Cardinality(retry) = 2
    /\ \A m \in retry : SenderOf(m) = "X"

\* C5 as stated: when the key lookup for a group fails, its messages stay
\* Unstarted and neither Account nor SignAndBroadcast is called for it.
C5_NoChainCallWithoutKey ==
    loop = "groups" =>
        \A s \in Groups :
            Ret(calls[s], "Get") = "err" =>
                /\ \A id \in IdsOf(s) : HasState(msgs, id, Unstarted)
                /\ Count(calls[s], "Account") = 0
                /\ Count(calls[s], "SignAndBroadcast") = 0

\* C5 amended: when the key lookup for a group fails, its messages stay
\* Unstarted and the only call made for it besides the key lookup is the
\* Account call that precedes it: no SignAndBroadcast, no lookup, no update.
C5_NoBroadcastWithoutKey ==
    loop = "groups" =>
        \A s \in Groups :
            Ret(calls[s], "Get") = "err" =>
                /\ \A id \in IdsOf(s) : HasState(msgs, id, Unstarted)
                /\ Len(calls[s]) = 2
                /\ calls[s][1].op = "Account" /\ calls[s][1].ret = "ok"
                /\ calls[s][2].op = "Get"

\* C5 witness: the cycle is over, sender Y's key lookup failed and Y's message
\* is Unstarted, while another group was sent.
C5_Witness ==
    /\ loop = "groups"
    /\ todo = {}
    /\ "Y" \in Groups
    /\ Ret(calls["Y"], "Get") = "err"
    /\ \A id \in IdsOf("Y") : HasState(msgs, id, Unstarted)
    /\ \E s \in Groups : Confirmed(calls[s])

\* C6: in a cycle every group is attempted exactly once whatever happened in
\* the iterations of the others: an iteration removes only its own group from
\* those still to visit, the cycle ends only when none is left, and it ends
\* with the loop back at its select.
C6_EveryGroupAttempted ==
    /\ [](loop = "groups" =>
            \A s \in Groups :
                /\ s \in todo => calls[s] = <<>>
                /\ s \notin todo => Count(calls[s], "Account") = 1)
    /\ [][ loop = "groups" =>
             /\ loop' \in {"groups", "select"}
             /\ loop' = "select" => todo = {}
             /\ \A s \in Groups : Visits(s) => todo' = todo \ {s}
         ]_vars

\* C6 witness: the cycle is over, one group failed at its Account call and
\* another one was attempted after or before it and confirmed.
C6_Witness ==
    /\ loop = "groups"
    /\ todo = {}
    /\ \E s, r \in Groups :
         /\ s # r
         /\ Ret(calls[s], "Account") = "err"
         /\ Confirmed(calls[r])

\* The cycle that has just read the store holds every Unstarted row of it.
ReadsEveryUnstarted ==
    (loop = "batch" /\ loop' = "groups") =>
        Range(unstarted') = {m \in Range(msgs) : m.State = Unstarted}

\* C7: the cycle reads every Unstarted row; each row read is in exactly one
\* batch, once, the batch of the sender it decodes to; a batch holds only
\* messages of its sender; and at most one SignAndBroadcast is made per
\* sender, carrying the whole batch.
C7_OneBatchPerSender ==
    /\ [][ReadsEveryUnstarted]_vars
    /\ [](loop = "groups" =>
            /\ \A i \in 1..Len(unstarted) :
                 /\ SenderOf(unstarted[i]) \in Groups
                 /\ \A k \in Groups :
                      Cardinality({j \in 1..Len(idsByFrom[k]) :
                                      idsByFrom[k][j] = unstarted[i].ID})
                        = IF k = SenderOf(unstarted[i]) THEN 1 ELSE 0
            /\ \A k \in Groups :
                 /\ Len(msgsByFrom[k]) = Len(idsByFrom[k])
                 /\ \A j \in 1..Len(msgsByFrom[k]) : msgsByFrom[k][j].Sender = k
                 /\ IdsOf(k) \subseteq {m.ID : m \in Range(unstarted)}
                 /\ Count(calls[k], "SignAndBroadcast") <= 1
                 /\ \A i \in 1..Len(calls[k]) :
                      calls[k][i].op = "SignAndBroadcast" =>
                         /\ calls[k][i].arg = msgsByFrom[k]
                         /\ Len(calls[k][i].arg) =
                              Cardinality({j \in 1..Len(unstarted) :
                                              SenderOf(unstarted[j]) = k}))

\* C7 witness: the batch of sender X holds two rows and the broadcast for X
\* was made.
C7_Witness ==
    /\ loop = "groups"
    /\ "X" \in Groups
    /\ Len(idsByFrom["X"]) = 2
    /\ Ret(calls["X"], "SignAndBroadcast") = "ok"

\* C8: when a Close() has returned the loop has exited and the subscription
\* is closed, and no cycle starts any more; and a cycle that is running is
\* never cut short: it leaves the range loop only when every group was
\* visited, whoever is waiting in Close().
C8_NoCycleAfterClose ==
    /\ []((\E c \in Closers : closer[c] = "returned") =>
            (loop = "exited" /\ sub = "closed"))
    /\ [][ (\E c \in Closers : closer[c] = "returned") => loop' # "batch" ]_vars
    /\ [][ (loop \in {"batch", "groups"}) =>
             /\ loop' \in {"batch", "groups", "select"}
             /\ (loop = "groups" /\ loop' = "select") => todo = {}
         ]_vars

\* C8 witness: Close() has returned although a tick is waiting and a row is
\* still Unstarted.
C8_Witness ==
    /\ \E c \in Closers : closer[c] = "returned"
    /\ tick
    /\ \E m \in Range(msgs) : m.State = Unstarted

\* C9 as stated: once Close() has been called on a started manager no cycle
\* starts.
C9_NoCycleOnceCloseCalled ==
    [][ (loop # "none" /\ \E c \in Closers : closer[c] # "idle") =>
          ~(loop = "select" /\ loop' = "batch") ]_vars

\* C10: at most one run loop and one subscription are ever made, and once the
\* manager is started a Start() call returns the already-started error and
\* changes nothing else.
C10_StartOnce ==
    /\ [](nLoops <= 1 /\ nSubs <= 1)
    /\ [][ starter = "Started" =>
             /\ starter' = starter
             /\ nLoops' = nLoops
             /\ nSubs' = nSubs
             /\ startRet' # startRet =>
                  /\ startRet' = "alreadyStarted"
                  /\ UNCHANGED <<msgs, sub, loop, tick, events, closer,
                                 cycleVars, retry, late>>
         ]_vars

\* C10 witness: Start() was called again after a Close() had returned and got
\* the already-started error.
C10_Witness ==
    /\ startRet = "alreadyStarted"
    /\ nLoops = 1
    /\ \E c \in Closers : closer[c] = "returned"

\* A Close() call that is waiting to hand over its stop signal can still be
\* served: the run loop has not taken a stop signal yet (it is running, or
\* was not launched so far). Once run has returned nothing receives from
\* txm.stop any more.
StopCanBeTaken == loop \in {"none", "select", "batch", "groups"}

\* C11 as stated: every call to Close() returns, whatever the lifecycle state
\* (never started, Start() failed, loop already exited, another Close() in
\* progress). A call that returns is never left sending on txm.stop with no
\* run loop that can receive from it.
C11_EveryCloseReturns ==
    \A c \in Closers : closer[c] = "stop" => StopCanBeTaken

\* C12 as stated: Healthy() and Ready() follow the lifecycle state alone:
\* they report success while the manager is started and an error once it is
\* stopped or when its Start() failed.
C12_HealthFollowsLifecycle ==
    /\ loop \in {"select", "batch", "groups"} =>
          (Healthy = "nil" /\ Ready = "nil")
    /\ (startRet = "subscribeErr" \/ loop \in {"done", "exited"}) =>
          (Healthy # "nil" /\ Ready # "nil")

\* A trigger (tick or notification) is taken in this step.
TakesTrigger == (tick /\ ~tick') \/ events' < events

\* C13: there is one run loop, so one cycle at a time; a trigger is only taken
\* at the select, with no cycle in progress, and starts the cycle there; a
\* trigger that arrives while a cycle runs changes nothing of that cycle and
\* stays pending; a step of the cycle processes one group; and the cycle that
\* serves the trigger reads every Unstarted row anew.
C13_OneCycleAtATime ==
    /\ [](nLoops <= 1)
    /\ [][ TakesTrigger =>
             /\ loop = "select" /\ loop' = "batch"
             /\ todo = {} /\ calls = EmptyMap /\ unstarted = <<>> ]_vars
    /\ [][ (loop' = "batch" /\ loop # "batch") => TakesTrigger ]_vars
    /\ [][ (loop \in {"batch", "groups"}) =>
             /\ (tick => tick') /\ events' >= events
             /\ (tick' # tick \/ events' # events) =>
                   (loop' = loop /\ msgs' = msgs /\ UNCHANGED cycleVars)
             /\ Cardinality({s \in Groups : s \in DOMAIN calls' /\ calls'[s] # calls[s]}) <= 1
         ]_vars
    /\ [][ReadsEveryUnstarted]_vars

\* C13 witness: a cycle is half-way through its groups while a tick and a
\* notification are pending.
C13_Witness ==
    /\ loop = "groups"
    /\ tick
    /\ events > 0
    /\ todo # {}
    /\ \E s \in Groups : calls[s] # <<>>

\* C14: the ids in the store are pairwise distinct; whatever the store holds,
\* an Enqueue that returns an id has added exactly one row, with that id, a
\* fresh one, the payload given and state Unstarted, and an Enqueue that
\* returns an error has added nothing; and rows only enter the store that
\* way.
C14_EnqueueStoresOnce ==
    /\ [](\A i, j \in 1..Len(msgs) : i # j => msgs[i].ID # msgs[j].ID)
    /\ [](\A p \in Payloads, e \in BOOLEAN :
            LET r == EnqueueCall(msgs, p, e) IN
            /\ r.err => r.rows = msgs
            /\ ~r.err =>
                 /\ r.id \notin {m.ID : m \in Range(msgs)}
                 /\ Len(r.rows) = Len(msgs) + 1
                 /\ SubSeq(r.rows, 1, Len(msgs)) = msgs
                 /\ r.rows[Len(r.rows)] =
                       [ID |-> r.id, Msg |-> p, State |-> Unstarted])
    /\ [][ Len(msgs') # Len(msgs) =>
             \E p \in Payloads : msgs' = EnqueueCall(msgs, p, FALSE).rows ]_vars

\* C14 witness: a row was enqueued after an earlier one had been completed.
C14_Witness ==
    /\ Len(msgs) >= 2
    /\ msgs[1].State = Completed
    /\ msgs[2].State = Unstarted

\* The row at position i exists and its payload decodes.
Decodable(i) == Len(msgs) >= i /\ ~Unmarshal(msgs[i].Msg).err

\* C15: on a started manager that is not closed, every stored message whose
\* payload decodes is eventually Completed, given that ticks keep occurring
\* and the collaborators fail only transiently, also when no notification
\* ever arrives. Rows are never removed, a Completed row stays Completed and
\* a started manager stays started, so this is: from some point on every
\* decodable row of a started manager is Completed, whenever it was enqueued.
C15_EventualDelivery ==
    <>[](loop # "none" =>
            \A i \in 1..Len(msgs) :
               Decodable(i) => msgs[i].State = Completed)

\* C15 witness: two decodable messages with different payloads have both been
\* completed on the manager that is never closed, and no notification is
\* pending.
C15_Witness ==
    /\ loop = "groups"
    /\ events = 0
    /\ retry = {}
    /\ Decodable(1) /\ Decodable(2)
    /\ msgs[1].State = Completed
    /\ msgs[2].State = Completed
    /\ msgs[1].Msg # msgs[2].Msg

\* Start() was called and its Subscribe failed.
StartFailed == starter = "Started" /\ nSubs = 0

\* C16: the Start() call whose Subscribe fails returns that error and in the
\* same step launches no run loop and leaves everything else as it was; from
\* then on there is no run loop and no subscription, no cycle starts and no
\* group is ever processed.
C16_FailedStartLaunchesNothing ==
    /\ [][ (startRet' = "subscribeErr" /\ startRet # "subscribeErr") =>
             /\ StartFailed'
             /\ UNCHANGED <<msgs, nSubs, nLoops, sub, loop, tick, events,
                            closer, cycleVars, retry, late>> ]_vars
    /\ [](startRet = "subscribeErr" => StartFailed)
    /\ [](StartFailed =>
            /\ loop = "none" /\ nLoops = 0 /\ sub = "nil"
            /\ unstarted = <<>> /\ calls = EmptyMap /\ todo = {}
            /\ \A m \in Range(msgs) : m.State = Unstarted)
    /\ [][ StartFailed => (StartFailed' /\ loop' = "none") ]_vars

\* C16 witness: Start() failed at Subscribe; since then a message was
\* enqueued and a tick fired, and a second Start() was refused.
C16_Witness ==
    /\ StartFailed
    /\ startRet = "alreadyStarted"
    /\ tick
    /\ \E m \in Range(msgs) : m.State = Unstarted

\* The store update of group s was called and failed.
UpdateFailed(cs) == Confirmed(cs) /\ Ret(cs, "UpdateMsgsWithState") = "err"

\* Every row of group s has a payload that decodes.
AllDecode(s) ==
    \A m \in Range(unstarted) : m.ID \in IdsOf(s) => ~Unmarshal(m.Msg).err

\* C17 as stated: when the store update of a confirmed group fails, all the
\* messages of the group remain Unstarted (stated here for the groups whose
\* payloads all decode).
C17_FailedUpdateLeavesGroupUnstarted ==
    loop = "groups" =>
       \A s \in Groups :
          (AllDecode(s) /\ UpdateFailed(calls[s])) =>
             \A id \in IdsOf(s) : HasState(msgs, id, Unstarted)

\* C17, amended: the iteration whose store update fails ends in a continue:
\* the cycle goes on with the groups not yet visited and ends only when all
\* were; every row of the group is left as it was or Completed, at least one
\* is left Unstarted, and no other row changes; every row that was marked had
\* been broadcast; and the next cycle that reads the store reads every row
\* that is still Unstarted.
C17_FailedUpdateLeavesUnmarkedUnstarted ==
    /\ [][ \A s \in Groups :
             (Visits(s) /\ UpdateFailed(calls'[s])) =>
                /\ loop' = "groups"
                /\ todo' = todo \ {s}
                /\ \E id \in IdsOf(s) : HasState(msgs', id, Unstarted)
                /\ \A i \in 1..Len(msgs) :
                     \/ msgs'[i] = msgs[i]
                     \/ /\ msgs[i].ID \in IdsOf(s)
                        /\ msgs'[i] = [msgs[i] EXCEPT !.State = Completed]
         ]_vars
    /\ [][ (loop = "groups" /\ loop' # "groups") => todo = {} ]_vars
    /\ [](loop = "groups" =>
            \A s \in Groups :
               /\ s \notin todo => Count(calls[s], "Account") = 1
               /\ \A m \in Range(unstarted) :
                    (m.ID \in IdsOf(s) /\ HasState(msgs, m.ID, Completed)) =>
                        Ret(calls[s], "SignAndBroadcast") = "ok")
    /\ [][ReadsEveryUnstarted]_vars

\* C17 witness: the cycle has visited all its groups; the update of X's
\* confirmed group failed and X's rows are Unstarted, and Y's group was
\* completed.
C17_Witness ==
    /\ loop = "groups"
    /\ todo = {}
    /\ "X" \in Groups /\ "Y" \in Groups
    /\ AllDecode("X")
    /\ UpdateFailed(calls["X"])
    /\ \A id \in IdsOf("X") : HasState(msgs, id, Unstarted)
    /\ result["Y"] = "sent"

\* C18 as stated: a stored message whose payload fails to decode stays
\* Unstarted and is never part of a broadcast: no row with such a payload is
\* Completed, and no SignAndBroadcast is made for a batch that holds one.
C18_UndecodableNeverSent ==
    /\ \A m \in Range(msgs) : Unmarshal(m.Msg).err => m.State = Unstarted
    /\ loop = "groups" =>
          \A s \in Groups :
             ~AllDecode(s) => Count(calls[s], "SignAndBroadcast") = 0

\* The rows the cycle read that decode to sender k, in the order read.
ReadFor(k) == SelectSeq(unstarted, LAMBDA m : SenderOf(m) = k)

\* C19: the rows are read in store order; the batch of a sender holds the
\* messages of the rows read for that sender, in the order read, its id list
\* runs in parallel, and the SignAndBroadcast of the group carries the batch
\* as it is; outside a cycle no grouping exists, and a cycle builds its
\* grouping from what it reads from the store then.
C19_BatchInReadOrder ==
    /\ [](\A i, j \in 1..Len(unstarted) :
             i < j => unstarted[i].ID < unstarted[j].ID)
    /\ [](loop = "groups" =>
            \A k \in Groups :
               /\ Len(idsByFrom[k]) = Len(ReadFor(k))
               /\ Len(msgsByFrom[k]) = Len(ReadFor(k))
               /\ \A j \in 1..Len(ReadFor(k)) :
                    /\ idsByFrom[k][j] = ReadFor(k)[j].ID
                    /\ msgsByFrom[k][j] = Unmarshal(ReadFor(k)[j].Msg).ms
               /\ \A i \in 1..Len(calls[k]) :
                    calls[k][i].op = "SignAndBroadcast" =>
                       calls[k][i].arg = [j \in 1..Len(ReadFor(k)) |->
                                             Unmarshal(ReadFor(k)[j].Msg).ms])
    /\ [](loop # "groups" =>
            (unstarted = <<>> /\ msgsByFrom = EmptyMap /\ idsByFrom = EmptyMap))
    /\ [][ (loop = "batch" /\ loop' = "groups") =>
             /\ unstarted = <<>> /\ msgsByFrom = EmptyMap /\ idsByFrom = EmptyMap
             /\ unstarted' = SelectMsgsWithState(msgs, Unstarted) ]_vars

\* C19 witness: X's batch holds two different messages, of the rows with ids
\* 1 and 2, and was broadcast.
C19_Witness ==
    /\ loop = "groups"
    /\ "X" \in Groups
    /\ idsByFrom["X"] = <<1, 2>>
    /\ msgsByFrom["X"][1] # msgsByFrom["X"][2]
    /\ Ret(calls["X"], "SignAndBroadcast") = "ok"

\* The steps of an iteration, in the order of the code, and the answer each
\* must have got for the next one to be made.
StepOrder ==
    << "Account", "Get", "SignAndBroadcast", "TxsEvents", "UpdateMsgsWithState" >>

StepPassed(c) == c.ret = (IF c.op = "TxsEvents" THEN "n1" ELSE "ok")

\* C20: the calls made for a group in a cycle are an initial part of Account,
\* key lookup, SignAndBroadcast, transaction lookup, store update, each made
\* only after the one before it succeeded (the lookup: found exactly one
\* transaction); a group not yet visited has no call; and the sequence number
\* given to SignAndBroadcast is the one the Account call of this group in this
\* cycle returned.
C20_StepsInOrder ==
    loop = "groups" =>
       \A s \in Groups :
          /\ s \in todo => calls[s] = <<>>
          /\ Len(calls[s]) <= Len(StepOrder)
          /\ \A i \in 1..Len(calls[s]) :
               /\ calls[s][i].op = StepOrder[i]
               /\ i > 1 => StepPassed(calls[s][i - 1])
               /\ calls[s][i].op = "SignAndBroadcast" =>
                    /\ calls[s][1].op = "Account"
                    /\ calls[s][i].sn = calls[s][1].sn

\* C20 witness: in one cycle X's group went through all five steps with one
\* sequence number and Y's group was signed with another.
C20_Witness ==
    /\ loop = "groups"
    /\ "X" \in Groups /\ "Y" \in Groups
    /\ Len(calls["X"]) = 5
    /\ Len(calls["Y"]) >= 3
    /\ calls["X"][3].sn # calls["Y"][3].sn

\* C21: a quote is held exactly while a cycle that loaded rows is in its
\* range loop: it is taken in the step that loads the rows, when no group has
\* been visited yet, it does not change until the cycle ends, and every
\* SignAndBroadcast of the cycle is given that quote.
C21_OneQuotePerCycle ==
    /\ [](gp # NoQuote <=> loop = "groups")
    /\ [](loop = "groups" =>
            /\ gp \in GasPrices
            /\ \A s \in Groups :
                 \A i \in 1..Len(calls[s]) :
                    calls[s][i].op = "SignAndBroadcast" => calls[s][i].gp = gp)
    /\ [][ gp' # gp =>
             \/ /\ loop = "batch" /\ loop' = "groups"
                /\ gp = NoQuote
                /\ Len(unstarted') > 0
                /\ \A s \in DOMAIN calls' : calls'[s] = <<>>
             \/ /\ loop = "groups" /\ loop' = "select"
                /\ gp' = NoQuote ]_vars

\* C21 witness: both groups of a cycle were signed, with the high quote.
C21_Witness ==
    /\ loop = "groups"
    /\ gp = "high"
    /\ "X" \in Groups /\ "Y" \in Groups
    /\ Ret(calls["X"], "SignAndBroadcast") = "ok"
    /\ Ret(calls["Y"], "SignAndBroadcast") = "ok"

\* sendMsgBatch returns in this step without having entered its range loop.
ReturnsEarly == loop = "batch" /\ loop' = "select"

\* C22: a cycle goes on to its groups only with rows it has read; a cycle
\* that finds no Unstarted row, or whose read fails, returns to the select
\* of run having taken no quote and made no call, and leaves every row, the
\* triggers and the lifecycle as they were.
C22_EmptyCycleIsNoOp ==
    /\ [][ (loop = "batch" /\ loop' # "batch") =>
             /\ loop' \in {"select", "groups"}
             /\ loop' = "groups" =>
                  (\E m \in Range(msgs) : m.State = Unstarted)
         ]_vars
    /\ [][ ReturnsEarly =>
             /\ gp = NoQuote /\ calls = EmptyMap /\ todo = {}
             /\ UNCHANGED <<msgs, lifeVars, envVars, closer, cycleVars, retry, late>>
         ]_vars
    /\ [](loop = "select" => (gp = NoQuote /\ calls = EmptyMap))

\* C22 witness: a cycle has been started while every stored row is Completed
\* already.
C22_Witness ==
    /\ loop = "batch"
    /\ Len(msgs) > 0
    /\ \A m \in Range(msgs) : m.State = Completed

(* -------------------- Enqueue during a running cycle ------------------- *)

\* The ids of the rows the running cycle has read.
ReadIds == {m.ID : m \in Range(unstarted)}

\* The ids the running cycle holds in its batches.
BatchIds == UNION {Range(idsByFrom[s]) : s \in DOMAIN idsByFrom}

\* Enqueue inserts a row in this step while a cycle is past its read.
EnqueuesLate == loop = "groups" /\ Len(msgs') > Len(msgs)

\* C23 as stated: a row inserted after a cycle's read of the store is read by
\* the next cycle, that is by the first cycle that starts after it.
C23_LateRowReadByNextCycle ==
    [][ (loop = "batch" /\ loop' # "batch") =>
          \A id \in late : id \in {m.ID : m \in Range(unstarted')} ]_vars

\* C23: Enqueue may interleave with a running cycle. A row inserted after the
\* cycle has read the Unstarted set is in no batch of that cycle, is not
\* marked Completed by it and stays in the store, Unstarted; the next cycle
\* whose read of the store succeeds reads it and puts it in a batch, and a
\* cycle whose read fails leaves it as it is.
C23_LateRowReadByNextLoadedCycle ==
    /\ [][ EnqueuesLate =>
             /\ Len(msgs') = Len(msgs) + 1
             /\ \A i \in 1..Len(msgs) : msgs'[i] = msgs[i]
             /\ msgs'[Len(msgs')].State = Unstarted
             /\ msgs'[Len(msgs')].ID \in late'
             /\ msgs'[Len(msgs')].ID \notin ReadIds
             /\ UNCHANGED <<loop, cycleVars>> ]_vars
    /\ [](loop = "groups" =>
            /\ late \cap ReadIds = {}
            /\ late \cap BatchIds = {}
            /\ \A s \in Groups : \A i \in 1..Len(calls[s]) :
                 calls[s][i].op = "UpdateMsgsWithState" =>
                    late \cap Range(calls[s][i].arg) = {})
    /\ [](\A id \in late : HasState(msgs, id, Unstarted))
    /\ [][ (loop = "batch" /\ loop' = "groups") =>
             /\ late \subseteq ReadIds'
             /\ late \subseteq UNION {Range(idsByFrom'[s]) : s \in DOMAIN idsByFrom'}
             /\ msgs' = msgs ]_vars
    /\ [][ (loop = "batch" /\ loop' = "select") =>
             (late' = late /\ msgs' = msgs) ]_vars

\* C23 witness: a cycle has visited all its groups and completed a row while
\* a row inserted after its read is still Unstarted in the store.
C23_Witness ==
    /\ loop = "groups"
    /\ todo = {}
    /\ late # {}
    /\ \E m \in Range(msgs) : m.State = Completed /\ m.ID \in ReadIds
    /\ \E m \in Range(msgs) : m.State = Unstarted /\ m.ID \in late

(* ------------------- the keeper registry: its claims ------------------- *)

\* The upkeeps whose paused flag is false.
Unpaused == {id \in UpkeepIds : ~s_upkeep[id].paused}

\* What a transmit with the inputs i gives in this state.
TransmitOf(i) ==
    transmit(s_upkeep, s_upkeepIDs, s_transmitters, blockNumber, i.sender,
             i.pre, i.id, i.checkBlockNumber, i.valid, i.maxLinkPayment,
             i.enoughGas, i.payment)

\* What a simulatePerformUpkeep with the inputs i gives in this state.
SimulateOf(i) ==
    simulatePerformUpkeep(s_upkeep, s_upkeepIDs, s_transmitters, i.pre, i.id,
                          i.valid, i.maxLinkPayment, i.enoughGas)

\* The call that ends in this step went through.
Done(op) == regCall'.op = op /\ ~regCall'.reverted

\* The call that ends in this step wrote nothing of the registry.
WroteNothing == UNCHANGED <<s_upkeep, s_upkeepIDs, s_transmitters, blockNumber>>

\* C24: each upkeep alternates between unpaused and paused: pauseUpkeep
\* reverts on a paused upkeep and otherwise sets the flag, unpauseUpkeep
\* reverts on an unpaused one and otherwise clears it, and nothing else
\* changes the flag. After every sequence of these calls the active set holds
\* exactly the ids whose paused flag is false, each once, and
\* getActiveUpkeepIDs returns ids of that set only and, asked for the whole
\* set, all of them (the call reverts with IndexOutOfRange when the set is
\* empty, so that no id is returned then). No transmit and no
\* simulatePerformUpkeep goes through for a paused upkeep.
C24_PausedUpkeepIsInactive ==
    /\ [](/\ Range(s_upkeepIDs) = Unpaused
          /\ Len(s_upkeepIDs) = Cardinality(Unpaused))
    /\ [](\A startIndex, maxCount \in 0..Cardinality(UpkeepIds) :
            LET r == getActiveUpkeepIDs(s_upkeep, s_upkeepIDs, s_transmitters,
                                        startIndex, maxCount)
            IN  /\ r.err = NoErr => Range(r.out) \subseteq Unpaused
                /\ (startIndex = 0 /\ maxCount = 0) =>
                      IF Unpaused = {}
                      THEN r.err = "IndexOutOfRange"
                      ELSE r.err = NoErr /\ Range(r.out) = Unpaused)
    /\ [](\A id \in UpkeepIds, isAdmin \in BOOLEAN :
            LET p == pauseUpkeep(s_upkeep, s_upkeepIDs, s_transmitters,
                                 isAdmin, id)
                u == unpauseUpkeep(s_upkeep, s_upkeepIDs, s_transmitters,
                                   isAdmin, id)
            IN  /\ s_upkeep[id].paused =>
                      /\ p.err # NoErr
                      /\ isAdmin => p.err = "OnlyUnpausedUpkeep"
                /\ ~s_upkeep[id].paused =>
                      /\ u.err # NoErr
                      /\ isAdmin => u.err = "OnlyPausedUpkeep"
                /\ p.err = NoErr => p.upkeep[id].paused
                /\ u.err = NoErr => ~u.upkeep[id].paused)
    /\ [](/\ \A i \in TransmitInputs :
               TransmitOf(i).err = NoErr => ~s_upkeep[i.id].paused
          /\ \A i \in SimulateInputs :
               SimulateOf(i).err = NoErr => ~s_upkeep[i.id].paused)
    /\ [][ \A id \in UpkeepIds :
             s_upkeep'[id].paused # s_upkeep[id].paused =>
                /\ Done("pauseUpkeep") \/ Done("unpauseUpkeep")
                /\ s_upkeep'[id].paused <=> Done("pauseUpkeep")
                /\ \A other \in UpkeepIds \ {id} :
                      s_upkeep'[other] = s_upkeep[other] ]_vars
    /\ [][ (Done("pauseUpkeep") \/ Done("unpauseUpkeep")) =>
             \E id \in UpkeepIds :
                s_upkeep'[id].paused # s_upkeep[id].paused ]_vars
    /\ [][ regCall'.reverted => WroteNothing ]_vars

\* C24 witness: upkeep 1 was paused, resumed and paused again, and
\* getActiveUpkeepIDs has returned while upkeep 2 alone is active.
C24_Witness ==
    /\ s_upkeep[1].paused
    /\ ~s_upkeep[2].paused
    /\ s_upkeepIDs = <<2>>
    /\ regCall = [op |-> "getActiveUpkeepIDs", reverted |-> FALSE]

\* C26: a transmit goes through only with a report whose checkBlockNumber is
\* above the upkeep's lastPerformBlockNumber, and then sets
\* lastPerformBlockNumber to the current block; nothing else writes it, so
\* it never decreases and is never ahead of the current block, and a report
\* whose checkBlockNumber is not above it is rejected, with StaleReport when
\* the call gets as far as decoding the report. (Block numbers up to the
\* largest uint32.)
C26_NoStaleReport ==
    /\ [](\A i \in TransmitInputs :
            LET r == TransmitOf(i)
                last == s_upkeep[i.id].lastPerformBlockNumber
            IN  /\ r.err = NoErr =>
                     /\ i.checkBlockNumber > last
                     /\ r.upkeep[i.id].lastPerformBlockNumber = blockNumber
                /\ i.checkBlockNumber <= last =>
                     /\ r.err # NoErr
                     /\ (i.pre = "ok" /\ i.sender \in Transmitters) =>
                           r.err = "StaleReport")
    /\ [](\A id \in UpkeepIds :
            s_upkeep[id].lastPerformBlockNumber <= blockNumber)
    /\ [][ \A id \in UpkeepIds :
             /\ s_upkeep'[id].lastPerformBlockNumber
                   >= s_upkeep[id].lastPerformBlockNumber
             /\ s_upkeep'[id].lastPerformBlockNumber
                   # s_upkeep[id].lastPerformBlockNumber =>
                  /\ Done("transmit")
                  /\ s_upkeep'[id].lastPerformBlockNumber = blockNumber ]_vars
    /\ [][ Done("transmit") =>
             \E id \in UpkeepIds :
                s_upkeep'[id].lastPerformBlockNumber = blockNumber ]_vars

\* C26 witness: upkeep 1 has paid 2 and was last performed in block 3, the
\* current block, and a transmit has just been rejected.
C26_Witness ==
    /\ blockNumber = 3
    /\ s_upkeep[1].lastPerformBlockNumber = 3
    /\ s_upkeep[1].amountSpent = 2
    /\ regCall = [op |-> "transmit", reverted |-> TRUE]

\* The sum of f over the set S.
RECURSIVE SumOver(_, _)
SumOver(f, S) ==
    IF S = {} THEN 0
    ELSE LET x == CHOOSE y \in S : TRUE IN f[x] + SumOver(f, S \ {x})

\* The LINK the registry holds for upkeeps and transmitters.
Held(upkeep, transmitters) ==
    SumOver([id \in UpkeepIds |-> upkeep[id].balance], UpkeepIds)
    + SumOver(transmitters, Transmitters)

\* C27: a transmit that goes through moves exactly its payment: the upkeep's
\* balance goes down by the payment, its amountSpent up by the payment, the
\* sender's balance up by the payment, no other balance changes and the sum
\* of the upkeep and transmitter balances stays as it was; a transmit for an
\* upkeep whose balance is below the maximum payment reverts, and a transmit
\* that reverts changes nothing.
C27_TransmitMovesPayment ==
    /\ [](\A i \in TransmitInputs :
            LET r == TransmitOf(i)
                u == s_upkeep[i.id]
            IN  /\ r.err = NoErr =>
                     /\ r.upkeep[i.id].balance = u.balance - i.payment
                     /\ r.upkeep[i.id].amountSpent = u.amountSpent + i.payment
                     /\ r.transmitters[i.sender]
                           = s_transmitters[i.sender] + i.payment
                     /\ \A id \in UpkeepIds \ {i.id} :
                           r.upkeep[id] = s_upkeep[id]
                     /\ \A t \in Transmitters \ {i.sender} :
                           r.transmitters[t] = s_transmitters[t]
                     /\ Held(r.upkeep, r.transmitters)
                           = Held(s_upkeep, s_transmitters)
                /\ u.balance < i.maxLinkPayment => r.err # NoErr
                /\ (/\ u.balance < i.maxLinkPayment
                    /\ i.pre = "ok" /\ i.sender \in Transmitters /\ i.valid
                    /\ i.checkBlockNumber > u.lastPerformBlockNumber
                    /\ ~u.paused) => r.err = "InsufficientFunds"
                /\ r.err # NoErr =>
                     /\ r.upkeep = s_upkeep
                     /\ r.ids = s_upkeepIDs
                     /\ r.transmitters = s_transmitters)
    /\ [][ regCall'.op = "transmit" =>
             /\ Held(s_upkeep', s_transmitters') = Held(s_upkeep, s_transmitters)
             /\ regCall'.reverted => WroteNothing
             /\ \E id \in UpkeepIds, t \in Transmitters, payment \in Amounts :
                  /\ s_upkeep'[id].balance = s_upkeep[id].balance - payment
                  /\ s_upkeep'[id].amountSpent
                        = s_upkeep[id].amountSpent + payment
                  /\ s_transmitters'[t] = s_transmitters[t] + payment ]_vars

\* C27 witness: upkeep 1 was funded with 2 and has paid 1 to the transmitter
\* in a transmit that has just gone through.
C27_Witness ==
    /\ s_upkeep[1].balance = 1
    /\ s_upkeep[1].amountSpent = 1
    /\ s_transmitters["t1"] = 1
    /\ regCall = [op |-> "transmit", reverted |-> FALSE]

(* ------------------------ the pipeline: its claims --------------------- *)

\* The graph has a path from a node back to that node.
HasCycle(g) == \E n \in g.nodes : n \in Reach(g, n)

\* The place in Tasks of the task of node n, counted from 0.
TaskIndex(n) ==
    (CHOOSE i \in 1..Len(parsed.Tasks) : parsed.Tasks[i].dotID = n) - 1

\* C25 as stated: the Tasks of a parsed pipeline are in topological order
\* (the task an edge leaves has a smaller index than the task it enters),
\* every node has its task, each task's id is its index, to is among from's
\* outputs exactly when from is among to's inputs, and a call of Parse on a
\* graph with a cycle ends with an error.
C25_ParseOrdersTasks ==
    /\ parsed.kind = "pipeline" =>
         /\ {parsed.Tasks[i].dotID : i \in 1..Len(parsed.Tasks)} = dotGraph.nodes
         /\ Len(parsed.Tasks) = Cardinality(dotGraph.nodes)
         /\ \A e \in dotGraph.edges : TaskIndex(e[1]) < TaskIndex(e[2])
         /\ \A i \in 1..Len(parsed.Tasks) : parsed.Tasks[i].id = i - 1
         /\ \A i, j \in 1..Len(parsed.Tasks) :
              (parsed.Tasks[j].id \in parsed.Tasks[i].outputs)
                 <=> (parsed.Tasks[i].id \in parsed.Tasks[j].inputs)
    /\ (parsed.kind # "none" /\ HasCycle(dotGraph)) => parsed.kind = "error"

\* The timeouts that are set among the tasks.
SetTimeouts == {tasks[i].timeout : i \in {j \in 1..Len(tasks) : tasks[j].set}}

\* C28 as stated: MinTimeout returns aTimeoutSet = true exactly when at least
\* one task has a timeout set, and then the duration it returns is the least
\* of the set timeouts.
C28_MinTimeoutOfSetTimeouts ==
    minTimeoutRet.err # "none" =>
       /\ minTimeoutRet.aTimeoutSet <=> SetTimeouts # {}
       /\ minTimeoutRet.aTimeoutSet =>
            /\ minTimeoutRet.minTimeout \in SetTimeouts
            /\ \A t \in SetTimeouts : minTimeoutRet.minTimeout <= t

====
